---- MODULE Spec2Model ----
(***************************************************************************)
(* A model of circomkit-rs: the pipeline orchestrator (Circomkit), its     *)
(* two test harnesses (WitnessTester, ProofTester) and the pure helpers    *)
(* they use.  The file system and the external tools (circom, node,        *)
(* snarkjs) are the environment: every external command has a set of       *)
(* possible outcomes, and every orchestrator function is modelled as the   *)
(* set of runs [fs, res, tr] it can have from a given file system: the     *)
(* file system it leaves, the value it returns and the trace of the        *)
(* external effects it caused, in order.                                   *)
(***************************************************************************)
EXTENDS Integers, Sequences, FiniteSets, TLC

(***************************************************************************)
(* Text.  A text is a sequence of one-character strings, so that           *)
(* str::contains is substring search, as in the code.                      *)
(***************************************************************************)
contains(s, sub) ==
    \E i \in 0..(Len(s) - Len(sub)) : SubSeq(s, i + 1, i + Len(sub)) = sub

T_Empty == << >>
T_InvalidProof == <<"I","n","v","a","l","i","d"," ","p","r","o","o","f">>
T_INVALID == <<"I","N","V","A","L","I","D">>
T_OK == <<"O","K">>
T_valid == <<"v","a","l","i","d">>
\* outputs the toolkit is known to print
T_SnarkOK == <<"s","n","a","r","k","J","S",":"," ","O","K","!">>
T_SnarkInvalid == <<"s","n","a","r","k","J","S",":"," ">> \o T_InvalidProof
T_Crash == <<"E","N","O","E","N","T">>

Digits == <<"0", "1", "2", "3", "4", "5", "6", "7", "8", "9">>
IsDigit(ch) == \E i \in 1..10 : Digits[i] = ch
DigitVal(ch) == (CHOOSE i \in 1..10 : Digits[i] = ch) - 1
IsSpace(ch) == ch \in {" ", "\t", "\n", "\r"}
RECURSIVE DigitsValue(_)
DigitsValue(s) ==
    IF Len(s) = 0 THEN 0
    ELSE DigitsValue(SubSeq(s, 1, Len(s) - 1)) * 10 + DigitVal(s[Len(s)])
AllDigits(s) == Len(s) > 0 /\ \A i \in 1..Len(s) : IsDigit(s[i])
\* str::parse::<usize>(): an optional '+', then digits
parse_usize(s) ==
    LET d == IF Len(s) > 0 /\ s[1] = "+" THEN Tail(s) ELSE s
    IN  IF AllDigits(d) THEN [ok |-> TRUE, n |-> DigitsValue(d)] ELSE [ok |-> FALSE, n |-> 0]
\* str::parse::<i64>(): an optional sign, then digits
parse_i64(s) ==
    LET neg == Len(s) > 0 /\ s[1] = "-"
        d == IF Len(s) > 0 /\ s[1] \in {"+", "-"} THEN Tail(s) ELSE s
    IN  IF AllDigits(d)
        THEN [ok |-> TRUE, n |-> IF neg THEN 0 - DigitsValue(d) ELSE DigitsValue(d)]
        ELSE [ok |-> FALSE, n |-> 0]
RECURSIVE trim_start(_)
trim_start(s) == IF Len(s) > 0 /\ IsSpace(s[1]) THEN trim_start(Tail(s)) ELSE s
RECURSIVE trim_end(_)
trim_end(s) ==
    IF Len(s) > 0 /\ IsSpace(s[Len(s)]) THEN trim_end(SubSeq(s, 1, Len(s) - 1)) ELSE s
trim(s) == trim_end(trim_start(s))
RECURSIVE split(_, _)
\* str::split(ch), collected: the pieces between the occurrences of ch
split(s, ch) ==
    IF \E i \in 1..Len(s) : s[i] = ch
    THEN LET i == CHOOSE j \in 1..Len(s) : s[j] = ch /\ \A k \in 1..(j - 1) : s[k] # ch
         IN  <<SubSeq(s, 1, i - 1)>> \o split(SubSeq(s, i + 1, Len(s)), ch)
    ELSE <<s>>
\* str::lines(): split at newlines, without a final empty line
lines(s) ==
    LET ps == split(s, "\n")
    IN  IF Len(ps[Len(ps)]) = 0 THEN SubSeq(ps, 1, Len(ps) - 1) ELSE ps
starts_with(s, pre) == Len(pre) <= Len(s) /\ SubSeq(s, 1, Len(pre)) = pre

(***************************************************************************)
(* Results.  Result<T> is [ok, v]: v is the value or the CircomkitError.   *)
(***************************************************************************)
Ok(v) == [ok |-> TRUE, v |-> v]
Err(e) == [ok |-> FALSE, v |-> e]
Unit == [unit |-> TRUE]
\* an error message: a literal of the code, or text captured from a process
Lit(s) == [lit |-> s]
Txt(s) == [text |-> s]

CircuitNotFound(p) == [kind |-> "CircuitNotFound", path |-> p]
PtauNotFound(p) == [kind |-> "PtauNotFound", path |-> p]
ToolNotFound(tool) == [kind |-> "ToolNotFound", tool |-> tool]
CommandFailed(command, exit_code, stderr) ==
    [kind |-> "CommandFailed", command |-> command, exit_code |-> exit_code,
     stderr |-> stderr]
InvalidConfig(msg) == [kind |-> "InvalidConfig", msg |-> msg]
IoError(what) == [kind |-> "Io", what |-> what]
JsonError(what) == [kind |-> "Json", what |-> what]
witness_failed(message) == [kind |-> "WitnessGenerationFailed", message |-> message]
proof_failed(message) == [kind |-> "ProofGenerationFailed", message |-> message]
verification_failed(message) == [kind |-> "VerificationFailed", message |-> message]
OtherError(msg) == [kind |-> "Other", msg |-> msg]
ConstraintNotSatisfied(expected, actual) ==
    [kind |-> "ConstraintNotSatisfied", expected |-> expected, actual |-> actual]

(***************************************************************************)
(* Paths are sequences of components; join appends.                        *)
(***************************************************************************)
join(p, comp) == Append(p, comp)
IsPrefix(p, q) == Len(p) <= Len(q) /\ SubSeq(q, 1, Len(p)) = p
Parent(p) == SubSeq(p, 1, Len(p) - 1)
Prefixes(p) == {SubSeq(p, 1, n) : n \in 1..Len(p)}

(***************************************************************************)
(* The file system: a function from the paths that exist to their          *)
(* contents.  A directory has content Dir.                                 *)
(***************************************************************************)
Dir == [t |-> "dir"]
exists(fs, p) == p \in DOMAIN fs
IsDir(fs, p) == exists(fs, p) /\ fs[p] = Dir
\* tokio::fs::create_dir_all
create_dir_all(fs, p) ==
    [q \in DOMAIN fs \cup Prefixes(p) |-> IF q \in DOMAIN fs THEN fs[q] ELSE Dir]
\* what a successful write leaves
put(fs, p, content) ==
    [q \in DOMAIN fs \cup {p} |-> IF q = p THEN content ELSE fs[q]]
\* tokio::fs::remove_file, tokio::fs::remove_dir_all
remove_file(fs, p) == [q \in DOMAIN fs \ {p} |-> fs[q]]
remove_dir_all(fs, p) == [q \in {r \in DOMAIN fs : ~IsPrefix(p, r)} |-> fs[q]]
\* a write can succeed only where the parent directory exists
CanWrite(fs, p) == IsDir(fs, Parent(p)) /\ ~IsDir(fs, p)

(***************************************************************************)
(* Runs.  A run is [fs, res, tr]: the file system left, the Result         *)
(* returned and the trace of effects.  An operation is the set of its      *)
(* possible runs.  Then(S, k) is `let x = S?; k(x)`: a failed run of S     *)
(* ends the operation with that error, a successful one is continued by    *)
(* every run of k.                                                         *)
(***************************************************************************)
Run(fs, res, tr) == [fs |-> fs, res |-> res, tr |-> tr]
Then(S, k(_)) ==
    UNION { IF r.res.ok
            THEN {[r2 EXCEPT !.tr = r.tr \o r2.tr] : r2 \in k(r)}
            ELSE {r} : r \in S }
\* Result::map_err
map_err(S, f(_)) ==
    {IF r.res.ok THEN r ELSE Run(r.fs, Err(f(r.res.v)), r.tr) : r \in S}
Return(fs, res) == {Run(fs, res, << >>)}
\* a call of a pipeline stage: its return value is recorded in the trace
Call(fn, S) == {[r EXCEPT !.tr = @ \o <<[ev |-> "ret", fn |-> fn, res |-> r.res]>>] : r \in S}
Returned(tr, fn) == {i \in 1..Len(tr) : tr[i].ev = "ret" /\ tr[i].fn = fn}

None == [some |-> FALSE]
Some(x) == [some |-> TRUE, v |-> x]
NoRead == [t |-> "none"]

(***************************************************************************)
(* File-system calls.  Each can fail with an I/O error (disk full,         *)
(* permissions) whatever the state; a write fails for certain where the    *)
(* parent directory is missing.                                            *)
(***************************************************************************)
fs_create_dir_all(fs, p) ==
    {Run(fs, Err(IoError("create_dir_all")), << >>)}
    \cup (IF \E q \in Prefixes(p) : exists(fs, q) /\ ~IsDir(fs, q)
          THEN {}
          ELSE {Run(create_dir_all(fs, p), Ok(Unit), <<[ev |-> "mkdir", path |-> p]>>)})
fs_write(fs, p, content) ==
    {Run(fs, Err(IoError("write")), << >>)}
    \cup (IF CanWrite(fs, p)
          THEN {Run(put(fs, p, content), Ok(Unit),
                    <<[ev |-> "write", path |-> p, content |-> content]>>)}
          ELSE {})
fs_read_to_string(fs, p) ==
    {Run(fs, Err(IoError("read")), << >>)}
    \cup (IF exists(fs, p) /\ ~IsDir(fs, p)
          THEN {Run(fs, Ok(fs[p]), <<[ev |-> "read", path |-> p]>>)}
          ELSE {})
\* `let _ = fs::remove_file(p).await`: the error is dropped
fs_remove_file_ignored(fs, p) ==
    {Run(fs, Ok(Unit), <<[ev |-> "delete_failed", path |-> p]>>)}
    \cup (IF exists(fs, p) /\ ~IsDir(fs, p)
          THEN {Run(remove_file(fs, p), Ok(Unit), <<[ev |-> "delete", path |-> p]>>)}
          ELSE {})
fs_remove_dir_all(fs, p) ==
    {Run(fs, Err(IoError("remove_dir_all")), << >>)}
    \cup (IF IsDir(fs, p)
          THEN {Run(remove_dir_all(fs, p), Ok(Unit), <<[ev |-> "rmdir", path |-> p]>>)}
          ELSE {})

(***************************************************************************)
(* External processes.  Command::output() either fails to spawn            *)
(* (ErrorKind::NotFound or another I/O error) or returns the exit status   *)
(* with the captured stdout and stderr.                                    *)
(***************************************************************************)
Output(code, stdout, stderr) == [code |-> code, stdout |-> stdout, stderr |-> stderr]
\* ExitStatus::success, ExitStatus::code().unwrap_or(-1)
success(output) == output.code = Some(0)
exit_code(output) == IF output.code.some THEN output.code.v ELSE -1
SpawnError(not_found) == [kind |-> "spawn", not_found |-> not_found]
Launch(cmd, prog, read, res) ==
    [ev |-> "launch", cmd |-> cmd, prog |-> prog, read |-> read, res |-> res]
\* one run of a process: what it left on disk and what output() returned
Proc(fs, cmd, prog, read, res) == Run(fs, res, <<Launch(cmd, prog, read, res)>>)
Exit0 == Ok(Output(Some(0), T_Empty, T_Empty))
\* a spawn that fails: the program is not found, or another I/O error
SpawnNotFound(fs, cmd, prog) == {Proc(fs, cmd, prog, NoRead, Err(SpawnError(TRUE)))}
SpawnDenied(fs, cmd, prog) == {Proc(fs, cmd, prog, NoRead, Err(SpawnError(FALSE)))}
\* a process that ran and failed with exit code 1 and a diagnostic
Crashes(fs, cmd, prog) ==
    {Proc(fs, cmd, prog, NoRead, Ok(Output(Some(1), T_Empty, T_Crash)))}
\* a process killed by a signal: it has no exit code
Killed(fs, cmd, prog) ==
    {Proc(fs, cmd, prog, NoRead, Ok(Output(None, T_Empty, T_Empty)))}
Launched(tr, cmd) == \E i \in 1..Len(tr) : tr[i].ev = "launch" /\ tr[i].cmd = cmd
Launches(tr) == {i \in 1..Len(tr) : tr[i].ev = "launch"}
LaunchesOf(tr, cmd) == {i \in Launches(tr) : tr[i].cmd = cmd}
ExitedZero(e) == e.res.ok /\ success(e.res.v)

(***************************************************************************)
(* CircomkitConfig (core/config.rs) and CircuitConfig (types.rs).          *)
(***************************************************************************)
DefaultConfig ==
    [protocol |-> "groth16", prime |-> "bn128", optimization |-> 1,
     dir_circuits |-> <<"circuits">>, dir_inputs |-> <<"inputs">>,
     dir_build |-> <<"build">>, dir_ptau |-> <<"ptau">>,
     circuits |-> <<"circuits.json">>,
     include |-> << >>, circom_path |-> None, snarkjs_path |-> None]
\* a configuration with every override set
CustomConfig ==
    [protocol |-> "plonk", prime |-> "bn128", optimization |-> 2,
     dir_circuits |-> <<"src", "circuits">>, dir_inputs |-> <<"inputs">>,
     dir_build |-> <<"out">>, dir_ptau |-> <<"ptau">>,
     circuits |-> <<"circuits.json">>,
     include |-> <<"node_modules">>, circom_path |-> Some("/opt/circom"),
     snarkjs_path |-> Some("/opt/snarkjs")]
Configs == {DefaultConfig, CustomConfig}

\* a faulty variant: every optimization level is accepted
validate_lenient(cfg) == Ok(Unit)
\* CircomkitConfig::validate
validate(cfg) ==
    IF cfg.optimization > 2
    THEN Err(InvalidConfig("Optimization level must be 0, 1, or 2"))
    ELSE Ok(Unit)
\* Circomkit::new: the configuration is validated, the circuit map starts empty
Circomkit_new(cfg) ==
    IF validate(cfg).ok
    THEN Ok([config |-> cfg, circuits |-> [x \in {} |-> Unit]])
    ELSE validate(cfg)
\* a faulty variant: a name that is present keeps its first configuration
add_circuit_keep_first(m, c) ==
    [x \in DOMAIN m \cup {c.name} |-> IF x \in DOMAIN m THEN m[x] ELSE c]
\* Circomkit::add_circuit: HashMap::insert under the configuration's name
add_circuit(m, c) ==
    [x \in DOMAIN m \cup {c.name} |-> IF x = c.name THEN c ELSE m[x]]
\* Circomkit::get_circuit: HashMap::get
get_circuit(m, name) == IF name \in DOMAIN m THEN Some(m[name]) ELSE None

\* the content of a circuits file: the members of its JSON object
CircuitsJson(entries) == [t |-> "circuits", entries |-> entries]
\* serde_json::from_str::<HashMap<String, CircuitConfig>>
parse_circuits(content) ==
    IF content.t = "circuits" THEN Ok(content.entries) ELSE Err(JsonError("circuits"))
LoadRun(fs, res, tr, m) == [fs |-> fs, res |-> res, tr |-> tr, circuits |-> m]
\* Circomkit::load_circuits; m is self.circuits
load_circuits(fs, cfg, m) ==
    LET path == cfg.circuits
    IN  IF exists(fs, path)
        THEN UNION {IF ~r1.res.ok THEN {LoadRun(r1.fs, r1.res, r1.tr, m)}
                    ELSE IF ~parse_circuits(r1.res.v).ok
                    THEN {LoadRun(r1.fs, parse_circuits(r1.res.v), r1.tr, m)}
                    ELSE {LoadRun(r1.fs, Ok(Unit), r1.tr, parse_circuits(r1.res.v).v)}
                    : r1 \in fs_read_to_string(fs, path)}
        ELSE {LoadRun(fs, Ok(Unit), << >>, m)}

\* a faulty variant: the input name is used without the extension
input_path_bare(cfg, circuit, input) == join(join(cfg.dir_inputs, circuit), input)
circuit_path(cfg, file) == cfg.dir_circuits \o file
input_path(cfg, circuit, input) == join(join(cfg.dir_inputs, circuit), input \o ".json")
build_path(cfg, circuit) == join(cfg.dir_build, circuit)
ptau_path(cfg, filename) == join(cfg.dir_ptau, filename)
circom_command(cfg) == IF cfg.circom_path.some THEN cfg.circom_path.v ELSE "circom"
snarkjs_command(cfg) == IF cfg.snarkjs_path.some THEN cfg.snarkjs_path.v ELSE "snarkjs"

\* CircuitConfig::new(name) and the builder methods
CircuitConfig_new(name) ==
    [name |-> name, file |-> <<name \o ".circom">>, absolute_file |-> None,
     template |-> name, params |-> << >>, public |-> << >>]
with_absolute_file(c, path) == [c EXCEPT !.absolute_file = Some(path)]
with_template(c, template) == [c EXCEPT !.template = template]
with_params(c, params) == [c EXCEPT !.params = params]
with_public(c, public) == [c EXCEPT !.public = public]

\* two configurations of the same circuit name, and the one the testers hold
CircA == with_params(with_template(CircuitConfig_new("mul"), "Mul"), <<2>>)
CircB ==
    with_public(
        with_params(
            with_absolute_file(with_template(CircuitConfig_new("mul"), "MulN"),
                               <<"/", "abs", "muln.circom">>),
            <<3, -4>>),
        <<"a", "b">>)
Circuits == {CircA, CircB}

(***************************************************************************)
(* Deterministic artifact paths.                                           *)
(***************************************************************************)
main_dir(cfg) == join(cfg.dir_build, "main")
main_path(cfg, c) == join(main_dir(cfg), c.name \o ".circom")
wasm_dir(cfg, c) == join(build_path(cfg, c.name), c.name \o "_js")
witness_calc(cfg, c) == join(wasm_dir(cfg, c), "generate_witness.js")
wasm_file(cfg, c) == join(wasm_dir(cfg, c), c.name \o ".wasm")
r1cs_path(cfg, c) == join(build_path(cfg, c.name), c.name \o ".r1cs")
sym_path(cfg, c) == join(build_path(cfg, c.name), c.name \o ".sym")
input_json_path(cfg, c) == join(build_path(cfg, c.name), "input.json")
witness_path(cfg, c) == join(build_path(cfg, c.name), "witness.wtns")
witness_json_path(cfg, c) == join(build_path(cfg, c.name), "witness.json")
zkey_path(cfg, c) == join(build_path(cfg, c.name), cfg.protocol \o "_pkey.zkey")
vkey_path(cfg, c) == join(build_path(cfg, c.name), cfg.protocol \o "_vkey.json")
proof_path(cfg, c) == join(build_path(cfg, c.name), cfg.protocol \o "_proof.json")
public_path(cfg, c) == join(build_path(cfg, c.name), "public.json")
temp_proof_path(cfg, c) == join(build_path(cfg, c.name), "temp_proof.json")
temp_public_path(cfg, c) == join(build_path(cfg, c.name), "temp_public.json")
verifier_path(cfg, c) == join(build_path(cfg, c.name), cfg.protocol \o "_verifier.sol")

CircuitArtifacts(r1cs, wasm, sym, pkey, vkey) ==
    [r1cs |-> r1cs, wasm |-> wasm, sym |-> sym, pkey |-> pkey, vkey |-> vkey]

(***************************************************************************)
(* The main-component generator.                                           *)
(***************************************************************************)
RECURSIVE JoinSep(_, _)
\* Vec<String>::join(sep), as the sequence of the pieces
JoinSep(strs, sep) ==
    IF Len(strs) = 0 THEN << >>
    ELSE IF Len(strs) = 1 THEN <<strs[1]>>
    ELSE <<strs[1], sep>> \o JoinSep(Tail(strs), sep)

render_params(c) ==
    IF Len(c.params) = 0 THEN << >>
    ELSE JoinSep([i \in 1..Len(c.params) |-> ToString(c.params[i])], ", ")
\* a faulty variant: the qualifier is written for an empty list too
render_public_always(c) == <<" {public [">> \o JoinSep(c.public, ", ") \o <<"]}">>
render_public(c) ==
    IF Len(c.public) = 0 THEN << >>
    ELSE <<" {public [">> \o JoinSep(c.public, ", ") \o <<"]}">>
include_path(cfg, c) ==
    IF c.absolute_file.some
    THEN c.absolute_file.v
    ELSE <<"..", "..">> \o cfg.dir_circuits \o c.file
main_content(cfg, c) ==
    [t |-> "main",
     pragma |-> "pragma circom 2.1.9;",
     include |-> include_path(cfg, c),
     decl |-> <<"component main">> \o render_public(c) \o <<" = ", c.template, "(">>
              \o render_params(c) \o <<");">>]

\* a faulty variant: the entry point is opened for appending, so that what a
\* call writes depends on what is on disk
generate_main_component_appending(fs, cfg, c) ==
    Then(fs_create_dir_all(fs, main_dir(cfg)), LAMBDA r1 :
    LET new == main_content(cfg, c)
        path == main_path(cfg, c)
        content == IF exists(r1.fs, path) /\ ~IsDir(r1.fs, path)
                   THEN [new EXCEPT !.decl = r1.fs[path].decl \o @]
                   ELSE new
    IN  Then(fs_write(r1.fs, path, content), LAMBDA r2 :
        Return(r2.fs, Ok([path |-> path]))))

\* a faulty variant: one entry-point file for all circuits
generate_main_component_shared(fs, cfg, c) ==
    Then(fs_create_dir_all(fs, main_dir(cfg)), LAMBDA r1 :
    Then(fs_write(r1.fs, join(main_dir(cfg), "main.circom"), main_content(cfg, c)), LAMBDA r2 :
    Return(r2.fs, Ok([path |-> join(main_dir(cfg), "main.circom")]))))

\* a faulty variant: an entry point that is present is kept
generate_main_component_cached(fs, cfg, c) ==
    Then(fs_create_dir_all(fs, main_dir(cfg)), LAMBDA r1 :
    IF exists(r1.fs, main_path(cfg, c))
    THEN Return(r1.fs, Ok([path |-> main_path(cfg, c)]))
    ELSE
    Then(fs_write(r1.fs, main_path(cfg, c), main_content(cfg, c)), LAMBDA r2 :
    Return(r2.fs, Ok([path |-> main_path(cfg, c)]))))

generate_main_component(fs, cfg, c) ==
    Then(fs_create_dir_all(fs, main_dir(cfg)), LAMBDA r1 :
    Then(fs_write(r1.fs, main_path(cfg, c), main_content(cfg, c)), LAMBDA r2 :
    Return(r2.fs, Ok([path |-> main_path(cfg, c)]))))

(***************************************************************************)
(* The compiler, as the environment: it reads the entry point and, when    *)
(* it exits with 0, has written the constraint system, the witness module  *)
(* with its calculation script, and the symbol table into the output       *)
(* directory.                                                              *)
(***************************************************************************)
\* the symbol table the compiler emits: one record per signal (index, metadata,
\* qualified name), here already split at the commas of each line
SymTable ==
    [t |-> "sym",
     v |-> <<<<<<"1">>, <<"1">>, <<"0">>, <<"m","a","i","n",".","o","u","t">>>>,
            <<<<"2">>, <<"2">>, <<"0">>, <<"m","a","i","n",".","a">>>>,
            <<<<"3">>, <<"3">>, <<"1">>, <<"m","a","i","n",".","s","u","b",".","x">>>>,
            <<<<"x">>, <<"9">>>>,
            <<<<"9">>, <<"9">>, <<"0">>, <<"m","a","i","n",".","f","a","r">>>>>>]
compiler_writes(fs, cfg, c) ==
    LET f1 == put(fs, r1cs_path(cfg, c), [t |-> "r1cs"])
        f2 == put(f1, wasm_dir(cfg, c), Dir)
        f3 == put(f2, wasm_file(cfg, c), [t |-> "wasm"])
        f4 == put(f3, witness_calc(cfg, c), [t |-> "js"])
    IN  put(f4, sym_path(cfg, c), SymTable)
run_circom(fs, cfg, c, main) ==
    LET prog == circom_command(cfg)
        read == IF exists(fs, main) THEN fs[main] ELSE NoRead
    IN  SpawnNotFound(fs, "circom", prog)
        \cup SpawnDenied(fs, "circom", prog)
        \cup Crashes(fs, "circom", prog)
        \cup Killed(fs, "circom", prog)
        \cup (IF exists(fs, main) /\ IsDir(fs, build_path(cfg, c.name))
              THEN {Proc(compiler_writes(fs, cfg, c), "circom", prog, read, Exit0)}
              ELSE {})

\* a faulty variant: the compiler's exit status is not looked at
compile_unchecked(fs, cfg, c) ==
    LET build_dir == build_path(cfg, c.name)
        circom == circom_command(cfg)
    IN  Then(fs_create_dir_all(fs, build_dir), LAMBDA r1 :
        Then(generate_main_component(r1.fs, cfg, c), LAMBDA r2 :
        Then(map_err(run_circom(r2.fs, cfg, c, r2.res.v.path),
                     LAMBDA e : IF e.not_found THEN ToolNotFound(circom)
                                ELSE IoError("spawn")), LAMBDA r3 :
        Return(r3.fs, Ok(CircuitArtifacts(
                 join(build_dir, c.name \o ".r1cs"),
                 join(join(build_dir, c.name \o "_js"), c.name \o ".wasm"),
                 join(build_dir, c.name \o ".sym"),
                 None, None))))))

\* a faulty variant: a failed compiler run is tried once more
compile_retrying(fs, cfg, c) ==
    LET build_dir == build_path(cfg, c.name)
        circom == circom_command(cfg)
    IN  Then(fs_create_dir_all(fs, build_dir), LAMBDA r1 :
        Then(generate_main_component(r1.fs, cfg, c), LAMBDA r2 :
        Then(map_err(run_circom(r2.fs, cfg, c, r2.res.v.path),
                     LAMBDA e : IF e.not_found THEN ToolNotFound(circom)
                                ELSE IoError("spawn")), LAMBDA r3 :
        Then(IF success(r3.res.v)
             THEN Return(r3.fs, r3.res)
             ELSE map_err(run_circom(r3.fs, cfg, c, r2.res.v.path),
                          LAMBDA e : IF e.not_found THEN ToolNotFound(circom)
                                     ELSE IoError("spawn")), LAMBDA r4 :
        IF ~success(r4.res.v)
        THEN Return(r4.fs, Err(CommandFailed(circom, exit_code(r4.res.v), r4.res.v.stderr)))
        ELSE Return(r4.fs, Ok(CircuitArtifacts(
                 join(build_dir, c.name \o ".r1cs"),
                 join(join(build_dir, c.name \o "_js"), c.name \o ".wasm"),
                 join(build_dir, c.name \o ".sym"),
                 None, None)))))))

compile(fs, cfg, c) ==
    LET build_dir == build_path(cfg, c.name)
        circom == circom_command(cfg)
    IN  Then(fs_create_dir_all(fs, build_dir), LAMBDA r1 :
        Then(generate_main_component(r1.fs, cfg, c), LAMBDA r2 :
        Then(map_err(run_circom(r2.fs, cfg, c, r2.res.v.path),
                     LAMBDA e : IF e.not_found THEN ToolNotFound(circom)
                                ELSE IoError("spawn")), LAMBDA r3 :
        IF ~success(r3.res.v)
        THEN Return(r3.fs, Err(CommandFailed(circom, exit_code(r3.res.v), r3.res.v.stderr)))
        ELSE Return(r3.fs, Ok(CircuitArtifacts(
                 join(build_dir, c.name \o ".r1cs"),
                 join(join(build_dir, c.name \o "_js"), c.name \o ".wasm"),
                 join(build_dir, c.name \o ".sym"),
                 None, None))))))

(***************************************************************************)
(* Signals (types.rs).  SignalValue is Single(String), Number(i64) or     *)
(* Array(Vec<SignalValue>); CircuitSignals maps names to values.           *)
(***************************************************************************)
Single(s) == [tag |-> "Single", s |-> s]
Number(n) == [tag |-> "Number", n |-> n]
Array(a) == [tag |-> "Array", a |-> a]

\* inputs the circuit accepts and inputs it rejects
InGood == [a |-> Single(<<"3">>), b |-> Number(4)]
InBad == [a |-> Single(<<"4", "2">>), b |-> Number(43)]
Inputs == {InGood, InBad}
Satisfies(inputs) == inputs # InBad
\* the witness vector the calculator computes, index-aligned with the symbol table
WitnessVector(inputs) ==
    IF inputs = InGood THEN << <<"1">>, <<"1", "2">>, <<"3">>, <<"4">> >>
    ELSE << <<"1">>, <<"3", "5">>, <<"5">>, <<"7">> >>
\* the public signals of a proof for these inputs, in the toolkit's order
PublicOf(inputs) == <<WitnessVector(inputs)[2], WitnessVector(inputs)[3]>>

(***************************************************************************)
(* The witness calculator, as the environment: node runs the script        *)
(* bundled with the module on the input file; it exits nonzero when the    *)
(* inputs violate a constraint of the circuit.                             *)
(***************************************************************************)
T_AssertFailed == <<"A","s","s","e","r","t"," ","F","a","i","l","e","d">>
run_node(fs, cfg, c, calc, wasm, input, out) ==
    LET read == IF exists(fs, input) THEN fs[input] ELSE NoRead
    IN  SpawnNotFound(fs, "node", "node")
        \cup Crashes(fs, "node", "node")
        \cup (IF exists(fs, calc) /\ exists(fs, wasm) /\ exists(fs, input)
                 /\ CanWrite(fs, out)
              THEN IF Satisfies(fs[input].v)
                   THEN {Proc(put(fs, out, [t |-> "wtns", of |-> fs[input].v]),
                              "node", "node", read, Exit0)}
                   ELSE {Proc(fs, "node", "node", read,
                              Ok(Output(Some(1), T_Empty, T_AssertFailed)))}
              ELSE {})

\* a faulty variant: the input file is written before the witness module is
\* looked for
generate_witness_eager(fs, cfg, c, inputs) ==
    LET build_dir == build_path(cfg, c.name)
        wasm_d == join(build_dir, c.name \o "_js")
        calc == join(wasm_d, "generate_witness.js")
        wasm == join(wasm_d, c.name \o ".wasm")
        input == join(build_dir, "input.json")
        wtns == join(build_dir, "witness.wtns")
    IN  Then(fs_write(fs, input, [t |-> "json", v |-> inputs]), LAMBDA r1 :
        IF ~exists(r1.fs, wasm)
        THEN Return(r1.fs, Err(CircuitNotFound(wasm)))
        ELSE
        Then(map_err(run_node(r1.fs, cfg, c, calc, wasm, input, wtns),
                     LAMBDA e : IoError("spawn")), LAMBDA r2 :
        IF ~success(r2.res.v)
        THEN Return(r2.fs, Err(witness_failed(Txt(r2.res.v.stderr))))
        ELSE Return(r2.fs, Ok([path |-> wtns, num_signals |-> 0]))))

generate_witness(fs, cfg, c, inputs) ==
    LET build_dir == build_path(cfg, c.name)
        wasm_d == join(build_dir, c.name \o "_js")
        calc == join(wasm_d, "generate_witness.js")
        wasm == join(wasm_d, c.name \o ".wasm")
        input == join(build_dir, "input.json")
        wtns == join(build_dir, "witness.wtns")
    IN  IF ~exists(fs, wasm)
        THEN Return(fs, Err(CircuitNotFound(wasm)))
        ELSE
        Then(fs_write(fs, input, [t |-> "json", v |-> inputs]), LAMBDA r1 :
        Then(map_err(run_node(r1.fs, cfg, c, calc, wasm, input, wtns),
                     LAMBDA e : IoError("spawn")), LAMBDA r2 :
        IF ~success(r2.res.v)
        THEN Return(r2.fs, Err(witness_failed(Txt(r2.res.v.stderr))))
        ELSE Return(r2.fs, Ok([path |-> wtns, num_signals |-> 0]))))

(***************************************************************************)
(* The proving toolkit's key commands, as the environment.                 *)
(***************************************************************************)
run_zkey_setup(fs, cfg, r1cs, ptau, zkey) ==
    LET prog == snarkjs_command(cfg)
    IN  SpawnNotFound(fs, "setup", prog)
        \cup SpawnDenied(fs, "setup", prog)
        \cup Crashes(fs, "setup", prog)
        \cup (IF exists(fs, r1cs) /\ exists(fs, ptau) /\ CanWrite(fs, zkey)
              THEN {Proc(put(fs, zkey, [t |-> "zkey"]), "setup", prog, NoRead, Exit0)}
              ELSE {})
run_export_vkey(fs, cfg, zkey, vkey) ==
    LET prog == snarkjs_command(cfg)
    IN  SpawnNotFound(fs, "export_vkey", prog)
        \cup Crashes(fs, "export_vkey", prog)
        \cup (IF exists(fs, zkey) /\ CanWrite(fs, vkey)
              THEN {Proc(put(fs, vkey, [t |-> "vkey"]), "export_vkey", prog, NoRead, Exit0)}
              ELSE {})

\* a faulty variant: the exit status of the key generation is not looked at
setup_unchecked(fs, cfg, c, ptau) ==
    LET build_dir == build_path(cfg, c.name)
        r1cs == join(build_dir, c.name \o ".r1cs")
        snarkjs == snarkjs_command(cfg)
        zkey == join(build_dir, cfg.protocol \o "_pkey.zkey")
        vkey == join(build_dir, cfg.protocol \o "_vkey.json")
    IN  IF ~exists(fs, r1cs) THEN Return(fs, Err(CircuitNotFound(r1cs)))
        ELSE IF ~exists(fs, ptau) THEN Return(fs, Err(PtauNotFound(ptau)))
        ELSE
        Then(map_err(run_zkey_setup(fs, cfg, r1cs, ptau, zkey),
                     LAMBDA e : IF e.not_found THEN ToolNotFound(snarkjs)
                                ELSE IoError("spawn")), LAMBDA r1 :
        Then(map_err(run_export_vkey(r1.fs, cfg, zkey, vkey),
                     LAMBDA e : IoError("spawn")), LAMBDA r2 :
        IF ~success(r2.res.v)
        THEN Return(r2.fs, Err(CommandFailed(snarkjs, exit_code(r2.res.v), r2.res.v.stderr)))
        ELSE Return(r2.fs, Ok(CircuitArtifacts(
                 r1cs,
                 join(join(build_dir, c.name \o "_js"), c.name \o ".wasm"),
                 join(build_dir, c.name \o ".sym"),
                 Some(zkey), Some(vkey))))))
\* a faulty variant: the trusted-setup file is looked for first
setup_ptau_first(fs, cfg, c, ptau) ==
    LET build_dir == build_path(cfg, c.name)
        r1cs == join(build_dir, c.name \o ".r1cs")
        snarkjs == snarkjs_command(cfg)
        zkey == join(build_dir, cfg.protocol \o "_pkey.zkey")
        vkey == join(build_dir, cfg.protocol \o "_vkey.json")
    IN  IF ~exists(fs, ptau) THEN Return(fs, Err(PtauNotFound(ptau)))
        ELSE IF ~exists(fs, r1cs) THEN Return(fs, Err(CircuitNotFound(r1cs)))
        ELSE
        Then(map_err(run_zkey_setup(fs, cfg, r1cs, ptau, zkey),
                     LAMBDA e : IF e.not_found THEN ToolNotFound(snarkjs)
                                ELSE IoError("spawn")), LAMBDA r1 :
        IF ~success(r1.res.v)
        THEN Return(r1.fs, Err(CommandFailed(snarkjs, exit_code(r1.res.v), r1.res.v.stderr)))
        ELSE
        Then(map_err(run_export_vkey(r1.fs, cfg, zkey, vkey),
                     LAMBDA e : IoError("spawn")), LAMBDA r2 :
        IF ~success(r2.res.v)
        THEN Return(r2.fs, Err(CommandFailed(snarkjs, exit_code(r2.res.v), r2.res.v.stderr)))
        ELSE Return(r2.fs, Ok(CircuitArtifacts(
                 r1cs,
                 join(join(build_dir, c.name \o "_js"), c.name \o ".wasm"),
                 join(build_dir, c.name \o ".sym"),
                 Some(zkey), Some(vkey))))))

\* a faulty variant: the returned artifacts do not carry the key paths
setup_keys_unset(fs, cfg, c, ptau) ==
    LET build_dir == build_path(cfg, c.name)
        r1cs == join(build_dir, c.name \o ".r1cs")
        snarkjs == snarkjs_command(cfg)
        zkey == join(build_dir, cfg.protocol \o "_pkey.zkey")
        vkey == join(build_dir, cfg.protocol \o "_vkey.json")
    IN  IF ~exists(fs, r1cs) THEN Return(fs, Err(CircuitNotFound(r1cs)))
        ELSE IF ~exists(fs, ptau) THEN Return(fs, Err(PtauNotFound(ptau)))
        ELSE
        Then(map_err(run_zkey_setup(fs, cfg, r1cs, ptau, zkey),
                     LAMBDA e : IF e.not_found THEN ToolNotFound(snarkjs)
                                ELSE IoError("spawn")), LAMBDA r1 :
        IF ~success(r1.res.v)
        THEN Return(r1.fs, Err(CommandFailed(snarkjs, exit_code(r1.res.v), r1.res.v.stderr)))
        ELSE
        Then(map_err(run_export_vkey(r1.fs, cfg, zkey, vkey),
                     LAMBDA e : IoError("spawn")), LAMBDA r2 :
        IF ~success(r2.res.v)
        THEN Return(r2.fs, Err(CommandFailed(snarkjs, exit_code(r2.res.v), r2.res.v.stderr)))
        ELSE Return(r2.fs, Ok(CircuitArtifacts(
                 r1cs,
                 join(join(build_dir, c.name \o "_js"), c.name \o ".wasm"),
                 join(build_dir, c.name \o ".sym"),
                 None, None)))))

setup(fs, cfg, c, ptau) ==
    LET build_dir == build_path(cfg, c.name)
        r1cs == join(build_dir, c.name \o ".r1cs")
        snarkjs == snarkjs_command(cfg)
        zkey == join(build_dir, cfg.protocol \o "_pkey.zkey")
        vkey == join(build_dir, cfg.protocol \o "_vkey.json")
    IN  IF ~exists(fs, r1cs) THEN Return(fs, Err(CircuitNotFound(r1cs)))
        ELSE IF ~exists(fs, ptau) THEN Return(fs, Err(PtauNotFound(ptau)))
        ELSE
        Then(map_err(run_zkey_setup(fs, cfg, r1cs, ptau, zkey),
                     LAMBDA e : IF e.not_found THEN ToolNotFound(snarkjs)
                                ELSE IoError("spawn")), LAMBDA r1 :
        IF ~success(r1.res.v)
        THEN Return(r1.fs, Err(CommandFailed(snarkjs, exit_code(r1.res.v), r1.res.v.stderr)))
        ELSE
        Then(map_err(run_export_vkey(r1.fs, cfg, zkey, vkey),
                     LAMBDA e : IoError("spawn")), LAMBDA r2 :
        IF ~success(r2.res.v)
        THEN Return(r2.fs, Err(CommandFailed(snarkjs, exit_code(r2.res.v), r2.res.v.stderr)))
        ELSE Return(r2.fs, Ok(CircuitArtifacts(
                 r1cs,
                 join(join(build_dir, c.name \o "_js"), c.name \o ".wasm"),
                 join(build_dir, c.name \o ".sym"),
                 Some(zkey), Some(vkey))))))

(***************************************************************************)
(* Prove.  The prover, as the environment, writes the proof and the        *)
(* public signals of the witness it was given.                             *)
(***************************************************************************)
run_prove(fs, cfg, zkey, wtns, proof, public) ==
    LET prog == snarkjs_command(cfg)
        read == IF exists(fs, wtns) THEN fs[wtns] ELSE NoRead
    IN  SpawnNotFound(fs, "prove", prog)
        \cup Crashes(fs, "prove", prog)
        \cup (IF exists(fs, zkey) /\ exists(fs, wtns) /\ CanWrite(fs, proof)
              THEN {Proc(put(put(fs, proof, [t |-> "proof", data |-> [of |-> fs[wtns].of]]),
                             public, [t |-> "public", v |-> PublicOf(fs[wtns].of)]),
                         "prove", prog, read, Exit0)}
              ELSE {})

\* a faulty variant: the proving key is not looked for
prove_unchecked(fs, cfg, c, inputs) ==
    Then(Call("generate_witness", generate_witness(fs, cfg, c, inputs)), LAMBDA w :
    LET build_dir == build_path(cfg, c.name)
        zkey == join(build_dir, cfg.protocol \o "_pkey.zkey")
        proof == join(build_dir, cfg.protocol \o "_proof.json")
        public == join(build_dir, "public.json")
    IN  Then(map_err(run_prove(w.fs, cfg, zkey, w.res.v.path, proof, public),
                     LAMBDA e : IoError("spawn")), LAMBDA r1 :
        IF ~success(r1.res.v)
        THEN Return(r1.fs, Err(proof_failed(Txt(r1.res.v.stderr))))
        ELSE
        Then(fs_read_to_string(r1.fs, proof), LAMBDA r2 :
        Then(fs_read_to_string(r2.fs, public), LAMBDA r3 :
        Return(r3.fs, Ok([proof |-> [protocol |-> cfg.protocol, data |-> r2.res.v.data],
                          public_signals |-> r3.res.v.v]))))))

\* a faulty variant: a failure of the witness stage is ignored and the prover
\* is run on whatever witness file is on disk
prove_witness_unchecked(fs, cfg, c, inputs) ==
    UNION {
      LET build_dir == build_path(cfg, c.name)
          zkey == join(build_dir, cfg.protocol \o "_pkey.zkey")
          wtns == join(build_dir, "witness.wtns")
          proof == join(build_dir, cfg.protocol \o "_proof.json")
          public == join(build_dir, "public.json")
          rest ==
            IF ~exists(w.fs, zkey)
            THEN Return(w.fs, Err(proof_failed(Lit("Proving key not found. Run setup first."))))
            ELSE
            Then(map_err(run_prove(w.fs, cfg, zkey, wtns, proof, public),
                         LAMBDA e : IoError("spawn")), LAMBDA r1 :
            IF ~success(r1.res.v)
            THEN Return(r1.fs, Err(proof_failed(Txt(r1.res.v.stderr))))
            ELSE
            Then(fs_read_to_string(r1.fs, proof), LAMBDA r2 :
            Then(fs_read_to_string(r2.fs, public), LAMBDA r3 :
            Return(r3.fs, Ok([proof |-> [protocol |-> cfg.protocol, data |-> r2.res.v.data],
                              public_signals |-> r3.res.v.v])))))
      IN  {[r EXCEPT !.tr = w.tr \o r.tr] : r \in rest}
      : w \in Call("generate_witness", generate_witness(fs, cfg, c, inputs)) }

prove(fs, cfg, c, inputs) ==
    Then(Call("generate_witness", generate_witness(fs, cfg, c, inputs)), LAMBDA w :
    LET build_dir == build_path(cfg, c.name)
        zkey == join(build_dir, cfg.protocol \o "_pkey.zkey")
        proof == join(build_dir, cfg.protocol \o "_proof.json")
        public == join(build_dir, "public.json")
    IN  IF ~exists(w.fs, zkey)
        THEN Return(w.fs, Err(proof_failed(Lit("Proving key not found. Run setup first."))))
        ELSE
        Then(map_err(run_prove(w.fs, cfg, zkey, w.res.v.path, proof, public),
                     LAMBDA e : IoError("spawn")), LAMBDA r1 :
        IF ~success(r1.res.v)
        THEN Return(r1.fs, Err(proof_failed(Txt(r1.res.v.stderr))))
        ELSE
        Then(fs_read_to_string(r1.fs, proof), LAMBDA r2 :
        Then(fs_read_to_string(r2.fs, public), LAMBDA r3 :
        Return(r3.fs, Ok([proof |-> [protocol |-> cfg.protocol, data |-> r2.res.v.data],
                          public_signals |-> r3.res.v.v]))))))

(***************************************************************************)
(* Verify.  The verifier, as the environment, is sound: it reports a       *)
(* proof valid only if the public signals are those of the proof.  How it  *)
(* reports is the toolkit's business: the reports below are the ones the   *)
(* classification in verify distinguishes.                                 *)
(***************************************************************************)
Valid(proofc, publicc) == publicc.v = PublicOf(proofc.data.of)
AcceptReports == {Output(Some(0), T_SnarkOK, T_Empty)}
RejectReports ==
    {Output(Some(1), T_Empty, T_SnarkInvalid),   \* nonzero exit, marker on stderr
     Output(Some(1), T_Empty, T_INVALID),
     Output(Some(1), T_SnarkInvalid, T_Empty),   \* nonzero exit, marker on stdout
     Output(Some(0), T_INVALID, T_Empty),        \* zero exit, marker on stdout
     Output(Some(0), T_SnarkInvalid, T_Empty)}
run_verify(fs, cfg, vkey, public, proof) ==
    LET prog == snarkjs_command(cfg)
        read == IF exists(fs, public) THEN fs[public] ELSE NoRead
    IN  SpawnNotFound(fs, "verify", prog)
        \cup Crashes(fs, "verify", prog)
        \cup (IF exists(fs, vkey) /\ exists(fs, public) /\ exists(fs, proof)
              THEN {Proc(fs, "verify", prog, read, Ok(o)) :
                        o \in IF Valid(fs[proof], fs[public])
                              THEN AcceptReports ELSE RejectReports}
              ELSE {})

\* a faulty variant: every unsuccessful exit is taken for a rejected proof
verify_lenient(fs, cfg, c, proof, public_signals) ==
    LET build_dir == build_path(cfg, c.name)
        vkey == join(build_dir, cfg.protocol \o "_vkey.json")
        tproof == join(build_dir, "temp_proof.json")
        tpublic == join(build_dir, "temp_public.json")
    IN  IF ~exists(fs, vkey)
        THEN Return(fs, Err(verification_failed(Lit("Verification key not found. Run setup first."))))
        ELSE
        Then(fs_write(fs, tproof, [t |-> "proof", data |-> proof.data]), LAMBDA r1 :
        Then(fs_write(r1.fs, tpublic, [t |-> "public", v |-> public_signals]), LAMBDA r2 :
        Then(map_err(run_verify(r2.fs, cfg, vkey, tpublic, tproof),
                     LAMBDA e : IoError("spawn")), LAMBDA r3 :
        Then(fs_remove_file_ignored(r3.fs, tproof), LAMBDA r4 :
        Then(fs_remove_file_ignored(r4.fs, tpublic), LAMBDA r5 :
        LET output == r3.res.v
        IN  IF ~success(output)
            THEN Return(r5.fs, Ok([b |-> FALSE]))
            ELSE Return(r5.fs, Ok([b |-> contains(output.stdout, T_OK)
                                         \/ contains(output.stdout, T_valid)])))))))

\* a faulty variant: the temp files are written before the key is looked for
verify_writes_first(fs, cfg, c, proof, public_signals) ==
    LET build_dir == build_path(cfg, c.name)
        vkey == join(build_dir, cfg.protocol \o "_vkey.json")
        tproof == join(build_dir, "temp_proof.json")
        tpublic == join(build_dir, "temp_public.json")
    IN  Then(fs_write(fs, tproof, [t |-> "proof", data |-> proof.data]), LAMBDA r1 :
        Then(fs_write(r1.fs, tpublic, [t |-> "public", v |-> public_signals]), LAMBDA r2 :
        IF ~exists(r2.fs, vkey)
        THEN Return(r2.fs, Err(verification_failed(Lit("Verification key not found. Run setup first."))))
        ELSE
        Then(map_err(run_verify(r2.fs, cfg, vkey, tpublic, tproof),
                     LAMBDA e : IoError("spawn")), LAMBDA r3 :
        Then(fs_remove_file_ignored(r3.fs, tproof), LAMBDA r4 :
        Then(fs_remove_file_ignored(r4.fs, tpublic), LAMBDA r5 :
        LET output == r3.res.v
        IN  IF ~success(output)
            THEN IF contains(output.stderr, T_InvalidProof) \/ contains(output.stderr, T_INVALID)
                 THEN Return(r5.fs, Ok([b |-> FALSE]))
                 ELSE Return(r5.fs, Err(verification_failed(Txt(output.stderr))))
            ELSE Return(r5.fs, Ok([b |-> contains(output.stdout, T_OK)
                                         \/ contains(output.stdout, T_valid)])))))))

\* a faulty variant: a zero exit is taken for a valid proof whatever was printed
verify_zero_is_valid(fs, cfg, c, proof, public_signals) ==
    LET build_dir == build_path(cfg, c.name)
        vkey == join(build_dir, cfg.protocol \o "_vkey.json")
        tproof == join(build_dir, "temp_proof.json")
        tpublic == join(build_dir, "temp_public.json")
    IN  IF ~exists(fs, vkey)
        THEN Return(fs, Err(verification_failed(Lit("Verification key not found. Run setup first."))))
        ELSE
        Then(fs_write(fs, tproof, [t |-> "proof", data |-> proof.data]), LAMBDA r1 :
        Then(fs_write(r1.fs, tpublic, [t |-> "public", v |-> public_signals]), LAMBDA r2 :
        Then(map_err(run_verify(r2.fs, cfg, vkey, tpublic, tproof),
                     LAMBDA e : IoError("spawn")), LAMBDA r3 :
        Then(fs_remove_file_ignored(r3.fs, tproof), LAMBDA r4 :
        Then(fs_remove_file_ignored(r4.fs, tpublic), LAMBDA r5 :
        LET output == r3.res.v
        IN  IF ~success(output)
            THEN IF contains(output.stderr, T_InvalidProof) \/ contains(output.stderr, T_INVALID)
                 THEN Return(r5.fs, Ok([b |-> FALSE]))
                 ELSE Return(r5.fs, Err(verification_failed(Txt(output.stderr))))
            ELSE Return(r5.fs, Ok([b |-> TRUE])))))))

RECURSIVE Reverse(_)
Reverse(s) == IF Len(s) = 0 THEN << >> ELSE Reverse(Tail(s)) \o <<Head(s)>>
\* a faulty variant: the public signals are serialized in reverse order
verify_reversing(fs, cfg, c, proof, public_signals) ==
    LET build_dir == build_path(cfg, c.name)
        vkey == join(build_dir, cfg.protocol \o "_vkey.json")
        tproof == join(build_dir, "temp_proof.json")
        tpublic == join(build_dir, "temp_public.json")
    IN  IF ~exists(fs, vkey)
        THEN Return(fs, Err(verification_failed(Lit("Verification key not found. Run setup first."))))
        ELSE
        Then(fs_write(fs, tproof, [t |-> "proof", data |-> proof.data]), LAMBDA r1 :
        Then(fs_write(r1.fs, tpublic, [t |-> "public", v |-> Reverse(public_signals)]), LAMBDA r2 :
        Then(map_err(run_verify(r2.fs, cfg, vkey, tpublic, tproof),
                     LAMBDA e : IoError("spawn")), LAMBDA r3 :
        Then(fs_remove_file_ignored(r3.fs, tproof), LAMBDA r4 :
        Then(fs_remove_file_ignored(r4.fs, tpublic), LAMBDA r5 :
        LET output == r3.res.v
        IN  IF ~success(output)
            THEN IF contains(output.stderr, T_InvalidProof) \/ contains(output.stderr, T_INVALID)
                 THEN Return(r5.fs, Ok([b |-> FALSE]))
                 ELSE Return(r5.fs, Err(verification_failed(Txt(output.stderr))))
            ELSE Return(r5.fs, Ok([b |-> contains(output.stdout, T_OK)
                                         \/ contains(output.stdout, T_valid)])))))))

verify(fs, cfg, c, proof, public_signals) ==
    LET build_dir == build_path(cfg, c.name)
        vkey == join(build_dir, cfg.protocol \o "_vkey.json")
        tproof == join(build_dir, "temp_proof.json")
        tpublic == join(build_dir, "temp_public.json")
    IN  IF ~exists(fs, vkey)
        THEN Return(fs, Err(verification_failed(Lit("Verification key not found. Run setup first."))))
        ELSE
        Then(fs_write(fs, tproof, [t |-> "proof", data |-> proof.data]), LAMBDA r1 :
        Then(fs_write(r1.fs, tpublic, [t |-> "public", v |-> public_signals]), LAMBDA r2 :
        Then(map_err(run_verify(r2.fs, cfg, vkey, tpublic, tproof),
                     LAMBDA e : IoError("spawn")), LAMBDA r3 :
        Then(fs_remove_file_ignored(r3.fs, tproof), LAMBDA r4 :
        Then(fs_remove_file_ignored(r4.fs, tpublic), LAMBDA r5 :
        LET output == r3.res.v
        IN  IF ~success(output)
            THEN IF contains(output.stderr, T_InvalidProof) \/ contains(output.stderr, T_INVALID)
                 THEN Return(r5.fs, Ok([b |-> FALSE]))
                 ELSE Return(r5.fs, Err(verification_failed(Txt(output.stderr))))
            ELSE Return(r5.fs, Ok([b |-> contains(output.stdout, T_OK)
                                         \/ contains(output.stdout, T_valid)])))))))

(***************************************************************************)
(* export_verifier, info, clean, clean_all.                                *)
(***************************************************************************)
run_export_verifier(fs, cfg, zkey, out) ==
    LET prog == snarkjs_command(cfg)
    IN  SpawnNotFound(fs, "export_verifier", prog)
        \cup Crashes(fs, "export_verifier", prog)
        \cup (IF exists(fs, zkey) /\ CanWrite(fs, out)
              THEN {Proc(put(fs, out, [t |-> "sol"]), "export_verifier", prog, NoRead, Exit0)}
              ELSE {})

export_verifier(fs, cfg, c) ==
    LET build_dir == build_path(cfg, c.name)
        zkey == join(build_dir, cfg.protocol \o "_pkey.zkey")
        out == join(build_dir, cfg.protocol \o "_verifier.sol")
        snarkjs == snarkjs_command(cfg)
    IN  IF ~exists(fs, zkey)
        THEN Return(fs, Err(proof_failed(Lit("Proving key not found. Run setup first."))))
        ELSE
        Then(map_err(run_export_verifier(fs, cfg, zkey, out),
                     LAMBDA e : IoError("spawn")), LAMBDA r1 :
        IF ~success(r1.res.v)
        THEN Return(r1.fs, Err(CommandFailed(snarkjs, exit_code(r1.res.v), r1.res.v.stderr)))
        ELSE Return(r1.fs, Ok([path |-> out])))

T_Constraints == <<"C","o","n","s","t","r","a","i","n","t","s",":">>
T_PrivateInputs == <<"P","r","i","v","a","t","e"," ","I","n","p","u","t","s",":">>
T_PublicInputs == <<"P","u","b","l","i","c"," ","I","n","p","u","t","s",":">>
T_Outputs == <<"O","u","t","p","u","t","s",":">>
T_Labels == <<"L","a","b","e","l","s",":">>
\* reports of the circuit's statistics: the plain form the parser is written for,
\* the toolkit's logger form, and a report that states no constraint count
InfoPlain == <<"C","o","n","s","t","r","a","i","n","t","s",":"," ","5","\n","O","u","t","p","u","t","s",":"," ","1","\n">>
InfoLogger == <<"s","n","a","r","k","J","S",":"," ","#"," ","o","f"," ","C","o","n","s","t","r","a","i","n","t","s",":"," ","5","\n">>
InfoNoCount == <<"L","a","b","e","l","s",":"," ","7","\n">>
InfoReports == {InfoPlain, InfoLogger, InfoNoCount}
run_r1cs_info(fs, cfg, r1cs) ==
    LET prog == snarkjs_command(cfg)
    IN  SpawnNotFound(fs, "info", prog)
        \cup Crashes(fs, "info", prog)
        \cup (IF exists(fs, r1cs)
              THEN {Proc(fs, "info", prog, NoRead, Ok(Output(Some(0), rep, T_Empty))) :
                        rep \in InfoReports}
              ELSE {})

\* `line.split(':').nth(1)`, then `n.trim().parse().unwrap_or(0)`
field_value(line, old) ==
    LET ps == split(line, ":")
    IN  IF Len(ps) >= 2
        THEN LET r == parse_usize(trim(ps[2])) IN IF r.ok THEN r.n ELSE 0
        ELSE old
RECURSIVE parse_info(_, _)
parse_info(ls, info) ==
    IF Len(ls) = 0 THEN info
    ELSE LET line == ls[1]
             next ==
               IF contains(line, T_Constraints)
               THEN [info EXCEPT !.constraints = field_value(line, @)]
               ELSE IF contains(line, T_PrivateInputs)
               THEN [info EXCEPT !.private_inputs = field_value(line, @)]
               ELSE IF contains(line, T_PublicInputs)
               THEN [info EXCEPT !.public_inputs = field_value(line, @)]
               ELSE IF contains(line, T_Outputs)
               THEN [info EXCEPT !.public_outputs = field_value(line, @)]
               ELSE IF contains(line, T_Labels)
               THEN [info EXCEPT !.labels = field_value(line, @)]
               ELSE info
         IN  parse_info(Tail(ls), next)

info(fs, cfg, c) ==
    LET build_dir == build_path(cfg, c.name)
        r1cs == join(build_dir, c.name \o ".r1cs")
        snarkjs == snarkjs_command(cfg)
    IN  IF ~exists(fs, r1cs) THEN Return(fs, Err(CircuitNotFound(r1cs)))
        ELSE
        Then(map_err(run_r1cs_info(fs, cfg, r1cs), LAMBDA e : IoError("spawn")), LAMBDA r1 :
        IF ~success(r1.res.v)
        THEN Return(r1.fs, Err(CommandFailed(snarkjs, exit_code(r1.res.v), r1.res.v.stderr)))
        ELSE Return(r1.fs, Ok(parse_info(lines(r1.res.v.stdout),
                 [constraints |-> 0, private_inputs |-> 0, public_inputs |-> 0,
                  public_outputs |-> 0, labels |-> 0]))))

\* a clean that reports success and removes nothing
clean_keeping(fs, cfg, c) == Return(fs, Ok(Unit))
clean(fs, cfg, c) ==
    LET build_dir == build_path(cfg, c.name)
    IN  IF exists(fs, build_dir)
        THEN Then(fs_remove_dir_all(fs, build_dir), LAMBDA r1 : Return(r1.fs, Ok(Unit)))
        ELSE Return(fs, Ok(Unit))
clean_all(fs, cfg) ==
    IF exists(fs, cfg.dir_build)
    THEN Then(fs_remove_dir_all(fs, cfg.dir_build), LAMBDA r1 : Return(r1.fs, Ok(Unit)))
    ELSE Return(fs, Ok(Unit))

(***************************************************************************)
(* download_ptau (utils/ptau.rs).  curl and wget, as the environment, can   *)
(* fail to launch, fail leaving nothing or a partial file, or download the *)
(* file.                                                                   *)
(***************************************************************************)
PtauInfo(filename, url) == [filename |-> filename, url |-> url]
run_curl(fs, out, url) ==
    SpawnNotFound(fs, "curl", "curl")
    \cup SpawnDenied(fs, "curl", "curl")
    \cup Crashes(fs, "curl", "curl")
    \cup (IF CanWrite(fs, out)
          THEN {Proc(put(fs, out, [t |-> "partial"]), "curl", "curl", NoRead,
                     Ok(Output(Some(1), T_Empty, T_Crash))),
                Proc(put(fs, out, [t |-> "ptau"]), "curl", "curl", NoRead, Exit0)}
          ELSE {})
run_wget(fs, out, url) ==
    SpawnNotFound(fs, "wget", "wget")
    \cup Crashes(fs, "wget", "wget")
    \cup (IF CanWrite(fs, out)
          THEN {Proc(put(fs, out, [t |-> "ptau"]), "wget", "wget", NoRead, Exit0)}
          ELSE {})
download_ptau(fs, ptau_info, output_dir) ==
    LET output_path == join(output_dir, ptau_info.filename)
    IN  IF exists(fs, output_path)
        THEN Return(fs, Ok([path |-> output_path]))
        ELSE
        Then(fs_create_dir_all(fs, output_dir), LAMBDA r1 :
        Then(map_err(run_curl(r1.fs, output_path, ptau_info.url),
                     LAMBDA e : IF e.not_found THEN ToolNotFound("curl (or wget)")
                                ELSE IoError("spawn")), LAMBDA r2 :
        IF ~success(r2.res.v)
        THEN Then(map_err(run_wget(r2.fs, output_path, ptau_info.url),
                          LAMBDA e : IoError("spawn")), LAMBDA r3 :
             IF ~success(r3.res.v)
             THEN Return(r3.fs, Err(CommandFailed("wget", exit_code(r3.res.v), r3.res.v.stderr)))
             ELSE Return(r3.fs, Ok([path |-> output_path])))
        ELSE Return(r2.fs, Ok([path |-> output_path]))))

(***************************************************************************)
(* WitnessTester (testers/witness.rs).  A run of a tester operation also   *)
(* carries the tester's memo flag as the operation leaves it.              *)
(***************************************************************************)
TRun(fs, res, tr, flag) == [fs |-> fs, res |-> res, tr |-> tr, flag |-> flag]
WithFlag(S, flag) == {TRun(r.fs, r.res, r.tr, flag) : r \in S}

\* a faulty variant: the memo flag is set before compile has returned
ensure_compiled_flag_early(fs, cfg, c, compiled) ==
    IF ~compiled
    THEN Then(WithFlag(Call("compile", compile(fs, cfg, c)), TRUE), LAMBDA r1 :
         {TRun(r1.fs, Ok(Unit), << >>, TRUE)})
    ELSE {TRun(fs, Ok(Unit), << >>, compiled)}

\* a faulty variant: the memo flag is trusted only while the witness module is on disk
ensure_compiled_rechecking(fs, cfg, c, compiled) ==
    IF ~compiled \/ ~exists(fs, wasm_file(cfg, c))
    THEN Then(WithFlag(Call("compile", compile(fs, cfg, c)), compiled), LAMBDA r1 :
         {TRun(r1.fs, Ok(Unit), << >>, TRUE)})
    ELSE {TRun(fs, Ok(Unit), << >>, compiled)}

ensure_compiled(fs, cfg, c, compiled) ==
    IF ~compiled
    THEN Then(WithFlag(Call("compile", compile(fs, cfg, c)), compiled), LAMBDA r1 :
         {TRun(r1.fs, Ok(Unit), << >>, TRUE)})
    ELSE {TRun(fs, Ok(Unit), << >>, compiled)}

\* the toolkit's witness-to-JSON export, as the environment
run_wtns_export(fs, cfg, wtns, out) ==
    LET prog == snarkjs_command(cfg)
    IN  SpawnNotFound(fs, "wtns_export", prog)
        \cup Crashes(fs, "wtns_export", prog)
        \cup (IF exists(fs, wtns) /\ CanWrite(fs, out)
              THEN {Proc(put(fs, out, [t |-> "wjson", v |-> WitnessVector(fs[wtns].of)]),
                         "wtns_export", prog, NoRead, Exit0)}
              ELSE {})

EmptyMap == [x \in {} |-> Unit]
insert(m, k, v) == [x \in DOMAIN m \cup {k} |-> IF x = k THEN v ELSE m[x]]
T_MainDot == <<"m","a","i","n",".">>
RECURSIVE decode_sym(_, _, _)
\* the loop over the symbol table's lines
decode_sym(ls, witness_array, signals) ==
    IF Len(ls) = 0 THEN signals
    ELSE LET parts == ls[1]
             idx == LET r == parse_usize(parts[1]) IN IF r.ok THEN r.n ELSE 0
             name == parts[4]
             next ==
               IF Len(parts) >= 4
               THEN IF starts_with(name, T_MainDot) /\ idx < Len(witness_array)
                    THEN insert(signals, SubSeq(name, Len(T_MainDot) + 1, Len(name)),
                                Single(witness_array[idx + 1]))
                    ELSE signals
               ELSE signals
         IN  decode_sym(Tail(ls), witness_array, next)

\* a faulty variant: a failed export is returned as a command failure
read_witness_outputs_strict(fs, cfg, c, wtns) ==
    LET build_dir == build_path(cfg, c.name)
        sym == join(build_dir, c.name \o ".sym")
        output_path == join(build_dir, "witness.json")
    IN  IF ~exists(fs, sym) THEN Return(fs, Err(CircuitNotFound(sym)))
        ELSE
        Then(map_err(run_wtns_export(fs, cfg, wtns, output_path),
                     LAMBDA e : IoError("spawn")), LAMBDA r1 :
        IF ~success(r1.res.v)
        THEN Return(r1.fs, Err(CommandFailed("snarkjs wtns export json",
                                             exit_code(r1.res.v), r1.res.v.stderr)))
        ELSE
        Then(fs_read_to_string(r1.fs, output_path), LAMBDA r2 :
        Then(fs_read_to_string(r2.fs, sym), LAMBDA r3 :
        Return(r3.fs, Ok([map |-> decode_sym(r3.res.v.v, r2.res.v.v, EmptyMap)])))))

read_witness_outputs(fs, cfg, c, wtns) ==
    LET build_dir == build_path(cfg, c.name)
        sym == join(build_dir, c.name \o ".sym")
        output_path == join(build_dir, "witness.json")
    IN  IF ~exists(fs, sym) THEN Return(fs, Err(CircuitNotFound(sym)))
        ELSE
        Then(map_err(run_wtns_export(fs, cfg, wtns, output_path),
                     LAMBDA e : IoError("spawn")), LAMBDA r1 :
        IF ~success(r1.res.v)
        THEN Return(r1.fs, Ok([map |-> EmptyMap]))
        ELSE
        Then(fs_read_to_string(r1.fs, output_path), LAMBDA r2 :
        Then(fs_read_to_string(r2.fs, sym), LAMBDA r3 :
        Return(r3.fs, Ok([map |-> decode_sym(r3.res.v.v, r2.res.v.v, EmptyMap)])))))

expect_pass(fs, cfg, c, compiled, inputs) ==
    Then(ensure_compiled(fs, cfg, c, compiled), LAMBDA e :
    Then(WithFlag(Call("generate_witness", generate_witness(e.fs, cfg, c, inputs)), e.flag),
         LAMBDA w :
    Then(WithFlag(Call("read_witness_outputs",
                       read_witness_outputs(w.fs, cfg, c, w.res.v.path)), e.flag), LAMBDA o :
    {TRun(o.fs, Ok(o.res.v), << >>, e.flag)})))

\* a faulty variant: the result of the witness generation is passed on, not inverted
expect_fail_uninverted(fs, cfg, c, compiled, inputs) ==
    Then(ensure_compiled(fs, cfg, c, compiled), LAMBDA e :
    {TRun(r.fs, IF r.res.ok THEN Ok(Unit) ELSE r.res, r.tr, e.flag) :
        r \in Call("generate_witness", generate_witness(e.fs, cfg, c, inputs))})

expect_fail(fs, cfg, c, compiled, inputs) ==
    Then(ensure_compiled(fs, cfg, c, compiled), LAMBDA e :
    {TRun(r.fs,
          IF r.res.ok
          THEN Err(OtherError("Expected witness generation to fail, but it succeeded"))
          ELSE Ok(Unit),
          r.tr, e.flag) :
        r \in Call("generate_witness", generate_witness(e.fs, cfg, c, inputs))})

RECURSIVE nat_to_string(_)
nat_to_string(n) ==
    IF n < 10 THEN <<Digits[n + 1]>> ELSE nat_to_string(n \div 10) \o <<Digits[(n % 10) + 1]>>
\* i64::to_string
i64_to_string(n) == IF n < 0 THEN <<"-">> \o nat_to_string(0 - n) ELSE nat_to_string(n)

RECURSIVE compare_signals(_, _)
\* a faulty variant: a string and an integer are compared as texts
compare_signals_textual(actual, expected) ==
    IF actual.tag = "Single" /\ expected.tag = "Single" THEN actual.s = expected.s
    ELSE IF actual.tag = "Number" /\ expected.tag = "Number" THEN actual.n = expected.n
    ELSE IF actual.tag = "Single" /\ expected.tag = "Number"
    THEN actual.s = i64_to_string(expected.n)
    ELSE IF actual.tag = "Number" /\ expected.tag = "Single"
    THEN expected.s = i64_to_string(actual.n)
    ELSE IF actual.tag = "Array" /\ expected.tag = "Array"
    THEN Len(actual.a) = Len(expected.a)
         /\ \A i \in 1..Len(actual.a) : compare_signals(actual.a[i], expected.a[i])
    ELSE FALSE
compare_signals(actual, expected) ==
    IF actual.tag = "Single" /\ expected.tag = "Single" THEN actual.s = expected.s
    ELSE IF actual.tag = "Number" /\ expected.tag = "Number" THEN actual.n = expected.n
    ELSE IF actual.tag = "Single" /\ expected.tag = "Number"
    THEN LET r == parse_i64(actual.s) IN IF r.ok THEN r.n = expected.n ELSE FALSE
    ELSE IF actual.tag = "Number" /\ expected.tag = "Single"
    THEN LET r == parse_i64(expected.s) IN IF r.ok THEN r.n = actual.n ELSE FALSE
    ELSE IF actual.tag = "Array" /\ expected.tag = "Array"
    THEN Len(actual.a) = Len(expected.a)
         /\ \A i \in 1..Len(actual.a) : compare_signals(actual.a[i], expected.a[i])
    ELSE FALSE

RECURSIVE Flatten(_)
Flatten(ss) == IF Len(ss) = 0 THEN << >> ELSE ss[1] \o Flatten(Tail(ss))
RECURSIVE as_string(_)
\* SignalValue::as_string
as_string(v) ==
    IF v.tag = "Single" THEN v.s
    ELSE IF v.tag = "Number" THEN i64_to_string(v.n)
    ELSE <<"[">> \o Flatten(JoinSep([i \in 1..Len(v.a) |-> as_string(v.a[i])], <<",", " ">>))
         \o <<"]">>

\* every order in which a HashMap can yield the keys of `expected`
Orders(S) ==
    {f \in [1..Cardinality(S) -> S] : \A i, j \in 1..Cardinality(S) : f[i] = f[j] => i = j}
RECURSIVE check_expected(_, _, _)
\* the loop of expect_output over `expected`, in the order `names`: the diagnostics
check_expected(names, expected, outputs) ==
    IF Len(names) = 0 THEN << >>
    ELSE LET name == names[1]
             here ==
               IF name \in DOMAIN outputs
               THEN IF ~compare_signals(outputs[name], expected[name])
                    THEN <<[signal |-> name, what |-> "mismatch",
                            expected |-> as_string(expected[name]),
                            got |-> as_string(outputs[name])]>>
                    ELSE << >>
               ELSE <<[signal |-> name, what |-> "not found"]>>
         IN  here \o check_expected(Tail(names), expected, outputs)

\* a faulty variant: the comparison stops at the first diagnostic
expect_output_first_error(fs, cfg, c, compiled, inputs, expected) ==
    Then(ensure_compiled(fs, cfg, c, compiled), LAMBDA e :
    Then(WithFlag(Call("generate_witness", generate_witness(e.fs, cfg, c, inputs)), e.flag),
         LAMBDA w :
    Then(WithFlag(Call("read_witness_outputs",
                       read_witness_outputs(w.fs, cfg, c, w.res.v.path)), e.flag), LAMBDA o :
    {LET all == check_expected(names, expected, o.res.v.map)
         errors == IF Len(all) = 0 THEN all ELSE <<all[1]>>
     IN  TRun(o.fs,
              Ok([passed |-> Len(errors) = 0,
                  outputs |-> o.res.v.map,
                  expected |-> Some(expected),
                  error |-> IF Len(errors) = 0 THEN None ELSE Some(JoinSep(errors, "; "))]),
              << >>, e.flag) :
        names \in Orders(DOMAIN expected)})))

expect_output(fs, cfg, c, compiled, inputs, expected) ==
    Then(ensure_compiled(fs, cfg, c, compiled), LAMBDA e :
    Then(WithFlag(Call("generate_witness", generate_witness(e.fs, cfg, c, inputs)), e.flag),
         LAMBDA w :
    Then(WithFlag(Call("read_witness_outputs",
                       read_witness_outputs(w.fs, cfg, c, w.res.v.path)), e.flag), LAMBDA o :
    {LET errors == check_expected(names, expected, o.res.v.map)
     IN  TRun(o.fs,
              Ok([passed |-> Len(errors) = 0,
                  outputs |-> o.res.v.map,
                  expected |-> Some(expected),
                  error |-> IF Len(errors) = 0 THEN None ELSE Some(JoinSep(errors, "; "))]),
              << >>, e.flag) :
        names \in Orders(DOMAIN expected)})))

expect_constraint_count(fs, cfg, c, compiled, expected) ==
    Then(ensure_compiled(fs, cfg, c, compiled), LAMBDA e :
    Then(WithFlag(Call("info", info(e.fs, cfg, c)), e.flag), LAMBDA i :
    IF i.res.v.constraints # expected
    THEN {TRun(i.fs, Err(ConstraintNotSatisfied(ToString(expected),
                                                ToString(i.res.v.constraints))),
               << >>, e.flag)}
    ELSE {TRun(i.fs, Ok(Unit), << >>, e.flag)}))

(***************************************************************************)
(* ProofTester (testers/proof.rs).                                         *)
(***************************************************************************)
\* a faulty variant: the memo flag is set but never read
ensure_setup_always(fs, cfg, c, ptau, setup_complete) ==
    Then(WithFlag(Call("compile", compile(fs, cfg, c)), setup_complete), LAMBDA r1 :
    Then(WithFlag(Call("setup", setup(r1.fs, cfg, c, ptau)), setup_complete), LAMBDA r2 :
    {TRun(r2.fs, Ok(Unit), << >>, TRUE)}))

\* a faulty variant: the memo flag is set before the key setup has returned
ensure_setup_flag_early(fs, cfg, c, ptau, setup_complete) ==
    IF ~setup_complete
    THEN Then(WithFlag(Call("compile", compile(fs, cfg, c)), setup_complete), LAMBDA r1 :
         Then(WithFlag(Call("setup", setup(r1.fs, cfg, c, ptau)), TRUE), LAMBDA r2 :
         {TRun(r2.fs, Ok(Unit), << >>, TRUE)}))
    ELSE {TRun(fs, Ok(Unit), << >>, setup_complete)}

ensure_setup(fs, cfg, c, ptau, setup_complete) ==
    IF ~setup_complete
    THEN Then(WithFlag(Call("compile", compile(fs, cfg, c)), setup_complete), LAMBDA r1 :
         Then(WithFlag(Call("setup", setup(r1.fs, cfg, c, ptau)), setup_complete), LAMBDA r2 :
         {TRun(r2.fs, Ok(Unit), << >>, TRUE)}))
    ELSE {TRun(fs, Ok(Unit), << >>, setup_complete)}

\* a faulty variant: an error of the verify stage is reported as an invalid proof
prove_and_verify_lenient(fs, cfg, c, ptau, setup_complete, inputs) ==
    Then(ensure_setup(fs, cfg, c, ptau, setup_complete), LAMBDA e :
    Then(WithFlag(Call("prove", prove(e.fs, cfg, c, inputs)), e.flag), LAMBDA p :
    {TRun(v.fs, Ok([valid |-> v.res.ok /\ v.res.v.b, proof |-> Some(p.res.v.proof),
                    public_signals |-> Some(p.res.v.public_signals), error |-> None]),
          p.tr \o v.tr, e.flag) :
        v \in Call("verify", verify(p.fs, cfg, c, p.res.v.proof, p.res.v.public_signals))}))

prove_and_verify(fs, cfg, c, ptau, setup_complete, inputs) ==
    Then(ensure_setup(fs, cfg, c, ptau, setup_complete), LAMBDA e :
    Then(WithFlag(Call("prove", prove(e.fs, cfg, c, inputs)), e.flag), LAMBDA p :
    Then(WithFlag(Call("verify", verify(p.fs, cfg, c, p.res.v.proof, p.res.v.public_signals)),
                  e.flag), LAMBDA v :
    {TRun(v.fs, Ok([valid |-> v.res.v.b, proof |-> Some(p.res.v.proof),
                    public_signals |-> Some(p.res.v.public_signals), error |-> None]),
          << >>, e.flag)})))

expect_valid_proof(fs, cfg, c, ptau, setup_complete, inputs) ==
    Then(prove_and_verify(fs, cfg, c, ptau, setup_complete, inputs), LAMBDA r :
    IF ~r.res.v.valid
    THEN {TRun(r.fs, Err(verification_failed(Lit("Proof was generated but verification failed"))),
               << >>, r.flag)}
    ELSE {TRun(r.fs, Ok(Unit), << >>, r.flag)})

expect_invalid_inputs(fs, cfg, c, ptau, setup_complete, inputs) ==
    Then(ensure_setup(fs, cfg, c, ptau, setup_complete), LAMBDA e :
    {TRun(r.fs,
          IF r.res.ok
          THEN Err(OtherError("Expected proof generation to fail for invalid inputs, but it succeeded"))
          ELSE Ok(Unit),
          r.tr, e.flag) :
        r \in Call("prove", prove(e.fs, cfg, c, inputs))})

\* tamper hooks: each changes the public signals it is given
TamperEntry(i, val, ps) == IF i \in 1..Len(ps) THEN [ps EXCEPT ![i] = val] ELSE ps
\* a faulty variant: the hook's change is lost, the signals of the proof are verified
expect_tampered_fails_untampered(fs, cfg, c, ptau, setup_complete, inputs, i, val) ==
    Then(ensure_setup(fs, cfg, c, ptau, setup_complete), LAMBDA e :
    Then(WithFlag(Call("prove", prove(e.fs, cfg, c, inputs)), e.flag), LAMBDA p :
    LET public_signals == p.res.v.public_signals
    IN  Then(WithFlag(Call("verify", verify(p.fs, cfg, c, p.res.v.proof, public_signals)),
                      e.flag), LAMBDA v :
        IF v.res.v.b
        THEN {TRun(v.fs, Err(OtherError("Expected verification to fail for tampered signals, but it passed")),
                   << >>, e.flag)}
        ELSE {TRun(v.fs, Ok(Unit), << >>, e.flag)})))
expect_tampered_fails(fs, cfg, c, ptau, setup_complete, inputs, i, val) ==
    Then(ensure_setup(fs, cfg, c, ptau, setup_complete), LAMBDA e :
    Then(WithFlag(Call("prove", prove(e.fs, cfg, c, inputs)), e.flag), LAMBDA p :
    LET public_signals == TamperEntry(i, val, p.res.v.public_signals)
    IN  Then(WithFlag(Call("verify", verify(p.fs, cfg, c, p.res.v.proof, public_signals)),
                      e.flag), LAMBDA v :
        IF v.res.v.b
        THEN {TRun(v.fs, Err(OtherError("Expected verification to fail for tampered signals, but it passed")),
                   << >>, e.flag)}
        ELSE {TRun(v.fs, Ok(Unit), << >>, e.flag)})))

generate_proof(fs, cfg, c, ptau, setup_complete, inputs) ==
    Then(ensure_setup(fs, cfg, c, ptau, setup_complete), LAMBDA e :
    WithFlag(Call("prove", prove(e.fs, cfg, c, inputs)), e.flag))

verify_proof(fs, cfg, c, ptau, setup_complete, proof, public_signals) ==
    Then(ensure_setup(fs, cfg, c, ptau, setup_complete), LAMBDA e :
    WithFlag(Call("verify", verify(e.fs, cfg, c, proof, public_signals)), e.flag))

export_solidity_verifier(fs, cfg, c, ptau, setup_complete) ==
    Then(ensure_setup(fs, cfg, c, ptau, setup_complete), LAMBDA e :
    WithFlag(Call("export_verifier", export_verifier(e.fs, cfg, c)), e.flag))

\* the calldata export, as the environment: it prints the call data of the
\* proof and public signals it is given
T_Calldata == <<"[", "0", "x", "]">>
run_calldata(fs, cfg, public, proof) ==
    LET prog == snarkjs_command(cfg)
        read == IF exists(fs, public) THEN fs[public] ELSE NoRead
    IN  SpawnNotFound(fs, "calldata", prog)
        \cup Crashes(fs, "calldata", prog)
        \cup (IF exists(fs, public) /\ exists(fs, proof)
              THEN {Proc(fs, "calldata", prog, read, Ok(Output(Some(0), T_Calldata, T_Empty)))}
              ELSE {})

get_calldata(fs, cfg, c, ptau, setup_complete, inputs) ==
    LET build_dir == build_path(cfg, c.name)
        proof_p == join(build_dir, "calldata_proof.json")
        public_p == join(build_dir, "calldata_public.json")
        snarkjs == snarkjs_command(cfg)
    IN  Then(ensure_setup(fs, cfg, c, ptau, setup_complete), LAMBDA e :
        Then(WithFlag(Call("prove", prove(e.fs, cfg, c, inputs)), e.flag), LAMBDA r0 :
        Then(WithFlag(fs_write(r0.fs, proof_p, [t |-> "proof", data |-> r0.res.v.proof.data]),
                      e.flag), LAMBDA r1 :
        Then(WithFlag(fs_write(r1.fs, public_p, [t |-> "public", v |-> r0.res.v.public_signals]),
                      e.flag), LAMBDA r2 :
        Then(WithFlag(map_err(run_calldata(r2.fs, cfg, public_p, proof_p),
                              LAMBDA x : IoError("spawn")), e.flag), LAMBDA r3 :
        Then(WithFlag(fs_remove_file_ignored(r3.fs, proof_p), e.flag), LAMBDA r4 :
        Then(WithFlag(fs_remove_file_ignored(r4.fs, public_p), e.flag), LAMBDA r5 :
        LET output == r3.res.v
        IN  IF ~success(output)
            THEN {TRun(r5.fs, Err(CommandFailed(snarkjs, exit_code(output), output.stderr)),
                       << >>, e.flag)}
            ELSE {TRun(r5.fs, Ok([text |-> output.stdout]), << >>, e.flag)})))))))

(***************************************************************************)
(* The state machine.  One Circomkit configuration, one file system, a     *)
(* WitnessTester and a ProofTester for the same circuit, and direct calls  *)
(* of the orchestrator.  `last` is the record of the last call: who made   *)
(* it, the operation and its arguments, the part of the state before the   *)
(* call that the operation's preconditions read (pre), what it returned    *)
(* and its trace.                                                          *)
(***************************************************************************)
\* pt_has_compiled is a history variable: a compile call of the proof tester has
\* returned success
VARIABLES config, circuits, fs, wt_compiled, pt_setup_complete, pt_has_compiled, last, calls
vars == <<config, circuits, fs, wt_compiled, pt_setup_complete, pt_has_compiled, last, calls>>

TesterCircuit == CircA
PtauFile(cfg) == ptau_path(cfg, "pot.ptau")
Root == << >>
EmptyFs == [p \in {Root} |-> Dir]
NoArgs == [none |-> TRUE]
\* no call of the orchestrator is in flight between two operations
NoCalls == << >>
Record(who, op, args, pre, r) ==
    [who |-> who, op |-> op, args |-> args, pre |-> pre, res |-> r.res, tr |-> r.tr]

\* HashMap::new()
NoCircuits == [x \in {} |-> Unit]
Init ==
    /\ config \in Configs
    /\ circuits = NoCircuits
    /\ fs \in {EmptyFs, put(create_dir_all(EmptyFs, config.dir_ptau), PtauFile(config), [t |-> "ptau"])}
    /\ wt_compiled = FALSE
    /\ pt_setup_complete = FALSE
    /\ pt_has_compiled = FALSE
    /\ last = [who |-> "none", op |-> "new", args |-> NoArgs, pre |-> NoArgs,
               res |-> Ok(Unit), tr |-> << >>]
    /\ calls = NoCalls

\* the testers are built with the default configuration
InitTester == Init /\ config = DefaultConfig
\* a direct call of the orchestrator
Kit(op, args, pre, runs) ==
    \E r \in runs :
        /\ fs' = r.fs
        /\ last' = Record("kit", op, args, pre, r)
        /\ UNCHANGED <<calls, config, circuits, wt_compiled, pt_setup_complete, pt_has_compiled>>
\* a call of the witness tester
WT(op, args, runs) ==
    \E r \in runs :
        /\ fs' = r.fs
        /\ wt_compiled' = r.flag
        /\ last' = Record("wt", op, args, [compiled |-> wt_compiled], r)
        /\ UNCHANGED <<calls, config, circuits, pt_setup_complete, pt_has_compiled>>
\* a call of the proof tester
PT(op, args, runs) ==
    \E r \in runs :
        /\ fs' = r.fs
        /\ pt_setup_complete' = r.flag
        /\ pt_has_compiled' =
              (pt_has_compiled \/ \E i \in Returned(r.tr, "compile") : r.tr[i].res.ok)
        /\ last' = Record("pt", op, args,
                          [setup_complete |-> pt_setup_complete,
                           has_compiled |-> pt_has_compiled], r)
        /\ UNCHANGED <<calls, config, circuits, wt_compiled>>

Compile ==
    \E c \in Circuits :
        Kit("compile", [c |-> c],
            [main |-> IF exists(fs, main_path(config, c)) THEN fs[main_path(config, c)] ELSE NoRead],
            compile(fs, config, c))
GenerateWitness ==
    \E c \in Circuits, i \in Inputs :
        Kit("generate_witness", [c |-> c, inputs |-> i],
            [wasm |-> exists(fs, wasm_file(config, c)),
             input |-> exists(fs, input_json_path(config, c))],
            generate_witness(fs, config, c, i))
Setup ==
    \E c \in Circuits :
        Kit("setup", [c |-> c, ptau |-> PtauFile(config)],
            [r1cs |-> exists(fs, r1cs_path(config, c)), ptau |-> exists(fs, PtauFile(config)),
             zkey |-> exists(fs, zkey_path(config, c)), vkey |-> exists(fs, vkey_path(config, c))],
            setup(fs, config, c, PtauFile(config)))
Prove ==
    \E c \in Circuits, i \in Inputs :
        Kit("prove", [c |-> c, inputs |-> i],
            [wasm |-> exists(fs, wasm_file(config, c)), zkey |-> exists(fs, zkey_path(config, c))],
            prove(fs, config, c, i))

TamperVals == {<<"9">>}
ProofFor(cfg, i) == [protocol |-> cfg.protocol, data |-> [of |-> i]]
\* public signals a caller can hand to verify: those of a proof, or tampered ones
PublicChoices(i) ==
    {PublicOf(i)} \cup {TamperEntry(k, val, PublicOf(i)) : k \in 1..Len(PublicOf(i)), val \in TamperVals}
Verify ==
    \E c \in Circuits, ps \in PublicChoices(InGood) :
        Kit("verify", [c |-> c, proof |-> ProofFor(config, InGood), public_signals |-> ps],
            [vkey |-> exists(fs, vkey_path(config, c))],
            verify(fs, config, c, ProofFor(config, InGood), ps))
ExportVerifier ==
    \E c \in Circuits :
        Kit("export_verifier", [c |-> c], [zkey |-> exists(fs, zkey_path(config, c))],
            export_verifier(fs, config, c))
Info ==
    \E c \in Circuits :
        Kit("info", [c |-> c], [r1cs |-> exists(fs, r1cs_path(config, c))], info(fs, config, c))
Clean ==
    \E c \in Circuits :
        Kit("clean", [c |-> c], [build |-> exists(fs, build_path(config, c.name))],
            clean(fs, config, c))
CleanAll == Kit("clean_all", NoArgs, [build |-> exists(fs, config.dir_build)], clean_all(fs, config))

EnsureCompiled ==
    WT("ensure_compiled", NoArgs, ensure_compiled(fs, config, TesterCircuit, wt_compiled))
ExpectPass ==
    \E i \in Inputs :
        WT("expect_pass", [inputs |-> i], expect_pass(fs, config, TesterCircuit, wt_compiled, i))
ExpectFail ==
    \E i \in Inputs :
        WT("expect_fail", [inputs |-> i], expect_fail(fs, config, TesterCircuit, wt_compiled, i))
T_out == <<"o", "u", "t">>
T_zz == <<"z", "z">>
ExpectedMaps ==
    {[x \in {T_out} |-> Number(12)],
     [x \in {T_out, T_zz} |-> Single(<<"1", "3">>)]}
ExpectOutput ==
    \E i \in Inputs, e \in ExpectedMaps :
        WT("expect_output", [inputs |-> i, expected |-> e],
           expect_output(fs, config, TesterCircuit, wt_compiled, i, e))
ConstraintCounts == {0, 5}
ExpectConstraintCount ==
    \E n \in ConstraintCounts :
        WT("expect_constraint_count", [expected |-> n],
           expect_constraint_count(fs, config, TesterCircuit, wt_compiled, n))

EnsureSetup ==
    PT("ensure_setup", NoArgs,
       ensure_setup(fs, config, TesterCircuit, PtauFile(config), pt_setup_complete))
ProveAndVerify ==
    \E i \in Inputs :
        PT("prove_and_verify", [inputs |-> i],
           prove_and_verify(fs, config, TesterCircuit, PtauFile(config), pt_setup_complete, i))
ExpectValidProof ==
    \E i \in Inputs :
        PT("expect_valid_proof", [inputs |-> i],
           expect_valid_proof(fs, config, TesterCircuit, PtauFile(config), pt_setup_complete, i))
ExpectInvalidInputs ==
    \E i \in Inputs :
        PT("expect_invalid_inputs", [inputs |-> i],
           expect_invalid_inputs(fs, config, TesterCircuit, PtauFile(config), pt_setup_complete, i))
ExpectTamperedFails ==
    \E i \in Inputs, k \in 1..2, val \in TamperVals :
        PT("expect_tampered_fails", [inputs |-> i, k |-> k, val |-> val],
           expect_tampered_fails(fs, config, TesterCircuit, PtauFile(config),
                                 pt_setup_complete, i, k, val))
GenerateProof ==
    \E i \in Inputs :
        PT("generate_proof", [inputs |-> i],
           generate_proof(fs, config, TesterCircuit, PtauFile(config), pt_setup_complete, i))
VerifyProof ==
    \E ps \in PublicChoices(InGood) :
        PT("verify_proof", [proof |-> ProofFor(config, InGood), public_signals |-> ps],
           verify_proof(fs, config, TesterCircuit, PtauFile(config), pt_setup_complete,
                        ProofFor(config, InGood), ps))
ExportSolidityVerifier ==
    PT("export_solidity_verifier", NoArgs,
       export_solidity_verifier(fs, config, TesterCircuit, PtauFile(config), pt_setup_complete))

GetCalldata ==
    PT("get_calldata", [inputs |-> InGood],
       get_calldata(fs, config, TesterCircuit, PtauFile(config), pt_setup_complete, InGood))

\* someone else changes the build directory: removes it, or removes the witness module
ExternalChange ==
    /\ \E p \in {build_path(config, TesterCircuit.name), wasm_file(config, TesterCircuit)} :
          /\ exists(fs, p)
          /\ fs' = remove_dir_all(fs, p)
    /\ last' = [who |-> "env", op |-> "external_change", args |-> NoArgs, pre |-> NoArgs,
                res |-> Ok(Unit), tr |-> << >>]
    /\ UNCHANGED <<calls, config, circuits, wt_compiled, pt_setup_complete, pt_has_compiled>>

\* a download of the ptau file the testers use, into the ptau directory
PtauUrl == "https://storage.googleapis.com/zkevm/ptau/pot.ptau"
DownloadPtau ==
    \E r \in download_ptau(fs, PtauInfo("pot.ptau", PtauUrl), config.dir_ptau) :
        /\ fs' = r.fs
        /\ last' = Record("util", "download_ptau", [filename |-> "pot.ptau"],
                          [ptau |-> exists(fs, PtauFile(config))], r)
        /\ UNCHANGED <<calls, config, circuits, wt_compiled, pt_setup_complete, pt_has_compiled>>

(***************************************************************************)
(* Circuits with distinct names under one build root.  One of them is      *)
(* named like the shared directory of the generated entry points,          *)
(* build/main.                                                             *)
(***************************************************************************)
CircMain == CircuitConfig_new("main")
NamedCircuits == {CircA, CircMain}
\* the build directory at each stage of a circuit's pipeline: what the
\* successful run of each operation leaves
Stages == {"new", "compiled", "witness", "keys", "proof"}
SuccessOf(S) == (CHOOSE r \in S : r.res.ok).fs
RECURSIVE StageFs(_, _, _, _)
StageFs(f, cfg, c, s) ==
    CASE s = "new" -> f
      [] s = "compiled" -> SuccessOf(compile(f, cfg, c))
      [] s = "witness" ->
            SuccessOf(generate_witness(StageFs(f, cfg, c, "compiled"), cfg, c, InGood))
      [] s = "keys" ->
            SuccessOf(setup(StageFs(f, cfg, c, "witness"), cfg, c, PtauFile(cfg)))
      [] s = "proof" -> SuccessOf(prove(StageFs(f, cfg, c, "keys"), cfg, c, InGood))
\* the two circuits, each at any stage
InitNames ==
    /\ config = DefaultConfig
    /\ circuits = NoCircuits
    /\ \E s1 \in Stages, s2 \in Stages :
          fs = StageFs(StageFs(put(create_dir_all(EmptyFs, config.dir_ptau),
                                   PtauFile(config), [t |-> "ptau"]),
                               config, CircA, s1),
                       config, CircMain, s2)
    /\ wt_compiled = FALSE
    /\ pt_setup_complete = FALSE
    /\ pt_has_compiled = FALSE
    /\ last = [who |-> "none", op |-> "new", args |-> NoArgs, pre |-> NoArgs,
               res |-> Ok(Unit), tr |-> << >>]
    /\ calls = NoCalls
\* the pipeline operations of a circuit
PipelineOp(c) ==
    \/ Kit("compile", [c |-> c], NoArgs, compile(fs, config, c))
    \/ Kit("generate_witness", [c |-> c], NoArgs, generate_witness(fs, config, c, InGood))
    \/ Kit("setup", [c |-> c], NoArgs, setup(fs, config, c, PtauFile(config)))
    \/ Kit("prove", [c |-> c], NoArgs, prove(fs, config, c, InGood))
    \/ Kit("verify", [c |-> c], NoArgs,
           verify(fs, config, c, ProofFor(config, InGood), PublicOf(InGood)))
    \/ Kit("export_verifier", [c |-> c], NoArgs, export_verifier(fs, config, c))

\* clean, any number of times, on either of the two circuits at any stage
CleanNamed ==
    \E c \in NamedCircuits :
        Kit("clean", [c |-> c], [build |-> exists(fs, build_path(config, c.name))],
            clean(fs, config, c))
NextClean == CleanNamed
SpecClean == InitNames /\ [][NextClean]_vars

(***************************************************************************)
(* load_circuits.  The circuits file is a JSON object whose members are     *)
(* circuit configurations; serde_json::from_str builds the map from the     *)
(* object's keys, and each configuration carries its own `name` member.     *)
(***************************************************************************)
\* the circuits files a project can hold: members keyed by their configuration's
\* name, a member under another key, and a file that is no JSON object
KeyedByName == CircuitsJson(add_circuit(add_circuit(NoCircuits, CircB), CircMain))
KeyedOtherwise == CircuitsJson([x \in {"adder"} |-> CircA])
NotJson == [t |-> "ptau"]
CircuitsFiles == {KeyedByName, KeyedOtherwise, NotJson}
InitLoad ==
    /\ config = DefaultConfig
    /\ circuits = NoCircuits
    /\ fs \in {EmptyFs, create_dir_all(EmptyFs, config.circuits)}
              \cup {put(EmptyFs, config.circuits, f) : f \in CircuitsFiles}
    /\ wt_compiled = FALSE
    /\ pt_setup_complete = FALSE
    /\ pt_has_compiled = FALSE
    /\ last = [who |-> "none", op |-> "new", args |-> NoArgs, pre |-> NoArgs,
               res |-> Ok(Unit), tr |-> << >>]
    /\ calls = NoCalls
LoadCircuits ==
    \E r \in load_circuits(fs, config, circuits) :
        /\ fs' = r.fs
        /\ circuits' = r.circuits
        /\ last' = Record("kit", "load_circuits", NoArgs,
                          [circuits |-> circuits, file |-> exists(fs, config.circuits)], r)
        /\ UNCHANGED <<calls, config, wt_compiled, pt_setup_complete, pt_has_compiled>>

(***************************************************************************)
(* Cleaning and rebuilding one circuit.  Every stage is a separate call of  *)
(* the orchestrator; each call is recorded together with what has happened  *)
(* since the build directory was last removed: whether a clean or clean_all *)
(* has returned Ok, and whether compile and setup have returned Ok after    *)
(* it.  The record is history only, the orchestrator keeps no such state.   *)
(***************************************************************************)
NothingSince == [cleaned |-> FALSE, compiled |-> FALSE, setup |-> FALSE]
SinceClean ==
    LET prev == IF "since" \in DOMAIN last.pre THEN last.pre.since ELSE NothingSince
    IN  IF last.who = "kit" /\ last.op \in {"clean", "clean_all"} /\ last.res.ok
        THEN [cleaned |-> TRUE, compiled |-> FALSE, setup |-> FALSE]
        ELSE IF last.who = "kit" /\ last.op = "compile" /\ last.res.ok
        THEN [prev EXCEPT !.compiled = TRUE]
        ELSE IF last.who = "kit" /\ last.op = "setup" /\ last.res.ok
        THEN [prev EXCEPT !.setup = TRUE]
        ELSE prev
\* the artifacts of a circuit that are on disk
OnDisk(c) ==
    [r1cs |-> exists(fs, r1cs_path(config, c)), wasm |-> exists(fs, wasm_file(config, c)),
     zkey |-> exists(fs, zkey_path(config, c)), vkey |-> exists(fs, vkey_path(config, c)),
     ptau |-> exists(fs, PtauFile(config)), since |-> SinceClean]
RebuildCompile ==
    \E c \in Circuits : Kit("compile", [c |-> c], OnDisk(c), compile(fs, config, c))
RebuildSetup ==
    \E c \in Circuits :
        Kit("setup", [c |-> c, ptau |-> PtauFile(config)], OnDisk(c),
            setup(fs, config, c, PtauFile(config)))
RebuildWitness ==
    \E c \in Circuits :
        Kit("generate_witness", [c |-> c, inputs |-> InGood], OnDisk(c),
            generate_witness(fs, config, c, InGood))
RebuildProve ==
    \E c \in Circuits :
        Kit("prove", [c |-> c, inputs |-> InGood], OnDisk(c), prove(fs, config, c, InGood))
RebuildVerify ==
    \E c \in Circuits :
        Kit("verify", [c |-> c, proof |-> ProofFor(config, InGood), public_signals |-> PublicOf(InGood)],
            OnDisk(c), verify(fs, config, c, ProofFor(config, InGood), PublicOf(InGood)))
RebuildExportVerifier ==
    \E c \in Circuits :
        Kit("export_verifier", [c |-> c], OnDisk(c), export_verifier(fs, config, c))
RebuildInfo ==
    \E c \in Circuits : Kit("info", [c |-> c], OnDisk(c), info(fs, config, c))
RebuildClean ==
    \E c \in Circuits : Kit("clean", [c |-> c], OnDisk(c), clean(fs, config, c))
\* the circuits share one name, and with it their artifact paths
RebuildCleanAll == Kit("clean_all", NoArgs, OnDisk(CircA), clean_all(fs, config))
NextRebuild ==
    \/ RebuildCompile \/ RebuildSetup \/ RebuildWitness \/ RebuildProve \/ RebuildVerify
    \/ RebuildExportVerifier \/ RebuildInfo \/ RebuildClean \/ RebuildCleanAll
SpecRebuild == InitTester /\ [][NextRebuild]_vars

(***************************************************************************)
(* Concurrent calls of generate_witness for one circuit.  The orchestrator *)
(* takes no lock and the calls run on different threads or in different    *)
(* processes, so the steps of a call interleave with those of the other:   *)
(* the existence check, the write of the input file (which creates or      *)
(* truncates the file and then fills it), the launch of node, node's read  *)
(* of the input file and node's exit.  `last.tr` is the order in which the *)
(* input file was touched.                                                 *)
(***************************************************************************)
CallIds == {1, 2}
InOther == [a |-> Single(<<"5">>), b |-> Number(6)]
ParInputs == {InGood, InOther, InBad}
\* a faulty variant: each call has an input file of its own
gw_input_path_unique(cfg, c, k) ==
    join(build_path(cfg, c.name), IF k = 1 THEN "input_1.json" ELSE "input_2.json")
\* the input file of call k: the same for every call
gw_input_path(cfg, c, k) == join(build_path(cfg, c.name), "input.json")
\* the build directory after a successful compile
CompiledFs == (CHOOSE r \in compile(EmptyFs, DefaultConfig, TesterCircuit) : r.res.ok).fs
Touch(k, ev, content) == [ev |-> ev, by |-> k, content |-> content]
Finish(k, res) == calls' = [calls EXCEPT ![k].pc = "done", ![k].res = res]
Goto(k, pc) == calls' = [calls EXCEPT ![k].pc = pc]

InitPar ==
    /\ config = DefaultConfig
    /\ circuits = NoCircuits
    /\ fs \in {EmptyFs, CompiledFs}
    /\ wt_compiled = FALSE
    /\ pt_setup_complete = FALSE
    /\ pt_has_compiled = FALSE
    /\ last = [who |-> "par", op |-> "generate_witness", args |-> NoArgs, pre |-> NoArgs,
               res |-> Ok(Unit), tr |-> << >>]
    /\ calls \in [CallIds -> {[pc |-> "called", inputs |-> i, read |-> NoRead,
                               res |-> Ok(Unit)] : i \in ParInputs}]

\* `if !wasm_file.exists() { return Err(CircuitNotFound(wasm_file)) }`
GwCheck(k) ==
    /\ calls[k].pc = "called"
    /\ IF ~exists(fs, wasm_file(config, TesterCircuit))
       THEN Finish(k, Err(CircuitNotFound(wasm_file(config, TesterCircuit))))
       ELSE Goto(k, "write")
    /\ UNCHANGED <<config, circuits, fs, wt_compiled, pt_setup_complete, pt_has_compiled, last>>
\* fs::write, first half: the file is created or truncated, or the write fails
GwCreate(k) ==
    /\ calls[k].pc = "write"
    /\ \/ /\ Finish(k, Err(IoError("write")))
          /\ UNCHANGED <<fs, last>>
       \/ /\ CanWrite(fs, gw_input_path(config, TesterCircuit, k))
          /\ fs' = put(fs, gw_input_path(config, TesterCircuit, k), [t |-> "empty"])
          /\ last' = [last EXCEPT !.tr = Append(@, Touch(k, "write", [t |-> "empty"]))]
          /\ Goto(k, "writing")
    /\ UNCHANGED <<config, circuits, wt_compiled, pt_setup_complete, pt_has_compiled>>
\* fs::write, second half: the serialized inputs are in the file
GwWriteAll(k) ==
    /\ calls[k].pc = "writing"
    /\ LET content == [t |-> "json", v |-> calls[k].inputs]
       IN  /\ fs' = put(fs, gw_input_path(config, TesterCircuit, k), content)
           /\ last' = [last EXCEPT !.tr = Append(@, Touch(k, "write", content))]
    /\ Goto(k, "spawn")
    /\ UNCHANGED <<config, circuits, wt_compiled, pt_setup_complete, pt_has_compiled>>
\* Command::new("node")...output(): node starts, or the launch fails
GwSpawn(k) ==
    /\ calls[k].pc = "spawn"
    /\ \/ Finish(k, Err(IoError("spawn")))
       \/ Goto(k, "node")
    /\ UNCHANGED <<config, circuits, fs, wt_compiled, pt_setup_complete, pt_has_compiled, last>>
\* node reads the input file it was given
NodeRead(k) ==
    /\ calls[k].pc = "node"
    /\ LET input == gw_input_path(config, TesterCircuit, k)
           content == IF exists(fs, input) THEN fs[input] ELSE NoRead
       IN  /\ calls' = [calls EXCEPT ![k].pc = "computing", ![k].read = content]
           /\ last' = [last EXCEPT !.tr = Append(@, Touch(k, "read", content))]
    /\ UNCHANGED <<config, circuits, fs, wt_compiled, pt_setup_complete, pt_has_compiled>>
\* node exits: with the witness of what it read written, or with a failure;
\* output() returns and generate_witness returns
NodeExit(k) ==
    /\ calls[k].pc = "computing"
    /\ LET wtns == witness_path(config, TesterCircuit)
           read == calls[k].read
       IN  \/ /\ Finish(k, Err(witness_failed(Txt(T_Crash))))
              /\ fs' = fs
           \/ /\ read.t = "json" /\ ~Satisfies(read.v)
              /\ Finish(k, Err(witness_failed(Txt(T_AssertFailed))))
              /\ fs' = fs
           \/ /\ read.t = "json" /\ Satisfies(read.v)
              /\ exists(fs, witness_calc(config, TesterCircuit))
              /\ exists(fs, wasm_file(config, TesterCircuit))
              /\ CanWrite(fs, wtns)
              /\ fs' = put(fs, wtns, [t |-> "wtns", of |-> read.v])
              /\ Finish(k, Ok([path |-> wtns, num_signals |-> 0]))
    /\ UNCHANGED <<config, circuits, wt_compiled, pt_setup_complete, pt_has_compiled, last>>

(***************************************************************************)
(* compare_signals as a function of its two arguments: every pair of       *)
(* signal values up to the bounds below.                                   *)
(***************************************************************************)
MaxStrLen == 2
MaxArrLen == 2
SigChars == {"0", "2", "4", "-", "+"}
SigStrings == UNION {[1..k -> SigChars] : k \in 0..MaxStrLen}
SigNumbers == {-4, -2, 0, 2, 4, 24, 42}
SigScalars == {Single(s) : s \in SigStrings} \cup {Number(n) : n \in SigNumbers}
SigElems == {Single(<<"2">>), Single(<<"0", "2">>), Number(2), Number(4)}
SigArrays ==
    {Array(a) : a \in UNION {[1..k -> SigElems] : k \in 0..MaxArrLen}}
    \cup {Array(<<Array(<<Number(2)>>)>>),
          Array(<<Array(<<Single(<<"2">>)>>)>>),
          Array(<<Array(<<Number(2), Number(4)>>)>>),
          Array(<<Number(2), Array(<< >>)>>)}
SignalValues == SigScalars \cup SigArrays
\* the two values a caller is about to compare
InitCmp ==
    /\ config = DefaultConfig
    /\ circuits = NoCircuits
    /\ fs = EmptyFs
    /\ wt_compiled = FALSE
    /\ pt_setup_complete = FALSE
    /\ pt_has_compiled = FALSE
    /\ calls = NoCalls
    /\ \E actual \in SignalValues, expected \in SignalValues :
          last = [who |-> "fn", op |-> "signals",
                  args |-> [actual |-> actual, expected |-> expected],
                  pre |-> NoArgs, res |-> Ok(Unit), tr |-> << >>]
CompareSignals ==
    /\ last.op = "signals"
    /\ last' = [last EXCEPT !.op = "compare_signals",
                            !.res = Ok([b |-> compare_signals(last.args.actual,
                                                              last.args.expected)])]
    /\ UNCHANGED <<calls, config, circuits, fs, wt_compiled, pt_setup_complete, pt_has_compiled>>
NextCmp == CompareSignals
SpecCmp == InitCmp /\ [][NextCmp]_vars

\* the build pipeline of the orchestrator, called directly
Next ==
    \/ Compile \/ GenerateWitness \/ Setup \/ Prove \/ Clean
    \/ ExternalChange
Spec == Init /\ [][Next]_vars

\* the consumers of the keys
NextVerify ==
    \/ Compile \/ Setup \/ Verify \/ ExportVerifier \/ Info \/ CleanAll
SpecVerify == Init /\ [][NextVerify]_vars

\* the witness tester, with someone else changing its build directory
NextWT ==
    \/ EnsureCompiled \/ ExpectPass \/ ExpectFail \/ ExpectOutput \/ ExpectConstraintCount
    \/ ExternalChange
SpecWT == InitTester /\ [][NextWT]_vars

\* the proof tester
NextPT ==
    \/ EnsureSetup \/ ProveAndVerify \/ ExpectValidProof \/ ExpectInvalidInputs
    \/ ExpectTamperedFails \/ GenerateProof \/ VerifyProof \/ ExportSolidityVerifier
SpecPT == InitTester /\ [][NextPT]_vars

\* the proof tester's operations that launch the prove, verify, verifier-export
\* and calldata-export commands
NextPTLaunch ==
    \/ EnsureSetup \/ ProveAndVerify \/ VerifyProof \/ ExportSolidityVerifier \/ GetCalldata
SpecPTLaunch == InitTester /\ [][NextPTLaunch]_vars

\* every operation that launches external commands: a test that drives one
\* tester, either of the two, from a fresh build directory (the calls follow the
\* construction or a call of the same tester), or downloads of the ptau file
WTSession == last.who \in {"none", "wt", "env"}
PTSession == last.who \in {"none", "pt"}
DLSession == last.who \in {"none", "util"}
NextOps == (WTSession /\ NextWT) \/ (PTSession /\ NextPT) \/ (DLSession /\ DownloadPtau)
SpecOps == InitTester /\ [][NextOps]_vars

(***************************************************************************)
(* Construction, the circuit map and the path resolver (core/circomkit.rs  *)
(* 26-69, core/config.rs 210-255).                                         *)
(***************************************************************************)
\* a configuration whose build root has two components
NestedConfig == [DefaultConfig EXCEPT !.dir_build = <<"target", "build">>]
\* optimization is a u8, and a configuration file can hold any value of it
OptLevels == {0, 1, 2, 3, 255}
RawConfigs ==
    {[c EXCEPT !.optimization = o] : c \in Configs \cup {NestedConfig}, o \in OptLevels}
\* no Circomkit has been constructed
NoConfig == [unbuilt |-> TRUE]
Constructed == config # NoConfig
AddableCircuits == {CircA, CircB, CircMain}
CircuitNames == {"mul", "main", "adder"}
InputNames == {"default", "edge"}
CircuitFiles == {<<"mul.circom">>, <<"lib", "mul.circom">>}
PtauNames == {"pot.ptau", "pot12.ptau"}
InitKit ==
    /\ config = NoConfig
    /\ circuits = NoCircuits
    /\ fs = EmptyFs
    /\ wt_compiled = FALSE
    /\ pt_setup_complete = FALSE
    /\ pt_has_compiled = FALSE
    /\ last = [who |-> "none", op |-> "start", args |-> NoArgs, pre |-> NoArgs,
               res |-> Ok(Unit), tr |-> << >>]
    /\ calls = NoCalls
\* a call that touches neither the build tree nor the testers
Pure(op, args, pre, res) ==
    /\ last' = [who |-> "kit", op |-> op, args |-> args, pre |-> pre, res |-> res,
                tr |-> << >>]
    /\ UNCHANGED <<fs, wt_compiled, pt_setup_complete, pt_has_compiled, calls>>
New ==
    \E cfg \in RawConfigs :
        /\ ~Constructed
        /\ Pure("new", [config |-> cfg], NoArgs, Circomkit_new(cfg))
        /\ IF Circomkit_new(cfg).ok
           THEN /\ config' = Circomkit_new(cfg).v.config
                /\ circuits' = Circomkit_new(cfg).v.circuits
           ELSE UNCHANGED <<config, circuits>>
AddCircuit ==
    \E c \in AddableCircuits :
        /\ Constructed
        /\ Pure("add_circuit", [c |-> c], [circuits |-> circuits], Ok(Unit))
        /\ circuits' = add_circuit(circuits, c)
        /\ UNCHANGED config
GetCircuit ==
    \E n \in CircuitNames :
        /\ Constructed
        /\ Pure("get_circuit", [name |-> n], [circuits |-> circuits],
                Ok(get_circuit(circuits, n)))
        /\ UNCHANGED <<config, circuits>>
BuildPath ==
    \E n \in CircuitNames :
        /\ Constructed
        /\ Pure("build_path", [circuit |-> n], NoArgs, Ok(build_path(config, n)))
        /\ UNCHANGED <<config, circuits>>
InputPath ==
    \E n \in CircuitNames, i \in InputNames :
        /\ Constructed
        /\ Pure("input_path", [circuit |-> n, input |-> i], NoArgs,
                Ok(input_path(config, n, i)))
        /\ UNCHANGED <<config, circuits>>
CircuitPath ==
    \E f \in CircuitFiles :
        /\ Constructed
        /\ Pure("circuit_path", [file |-> f], NoArgs, Ok(circuit_path(config, f)))
        /\ UNCHANGED <<config, circuits>>
PtauPath ==
    \E f \in PtauNames :
        /\ Constructed
        /\ Pure("ptau_path", [filename |-> f], NoArgs, Ok(ptau_path(config, f)))
        /\ UNCHANGED <<config, circuits>>
CircomCommand ==
    /\ Constructed
    /\ Pure("circom_command", NoArgs, NoArgs, Ok(circom_command(config)))
    /\ UNCHANGED <<config, circuits>>
SnarkjsCommand ==
    /\ Constructed
    /\ Pure("snarkjs_command", NoArgs, NoArgs, Ok(snarkjs_command(config)))
    /\ UNCHANGED <<config, circuits>>
\* compile of a circuit taken from the map
CompileAdded ==
    \E n \in DOMAIN circuits :
        /\ Constructed
        /\ Kit("compile", [c |-> circuits[n]], NoArgs, compile(fs, config, circuits[n]))
\* a Circomkit from its construction on: the circuit map, the path resolver,
\* compile of a mapped circuit, and a witness tester built on the instance
NextKit ==
    \/ New \/ AddCircuit \/ GetCircuit
    \/ BuildPath \/ InputPath \/ CircuitPath \/ PtauPath \/ CircomCommand \/ SnarkjsCommand
    \/ CompileAdded
    \/ (Constructed /\ EnsureCompiled)
SpecKit == InitKit /\ [][NextKit]_vars

\* the circuit map of one orchestrator, filled by add_circuit and load_circuits
NextLoad == AddCircuit \/ GetCircuit \/ LoadCircuits
SpecLoad == InitLoad /\ [][NextLoad]_vars

\* one pipeline operation on either of two circuits of different names, from
\* any stage of each
NextNames == \E c \in NamedCircuits : last.who = "none" /\ PipelineOp(c)
SpecNames == InitNames /\ [][NextNames]_vars

\* two concurrent calls of generate_witness for the same circuit
NextPar ==
    \E k \in CallIds :
        GwCheck(k) \/ GwCreate(k) \/ GwWriteAll(k) \/ GwSpawn(k) \/ NodeRead(k) \/ NodeExit(k)
SpecPar == InitPar /\ [][NextPar]_vars

(***************************************************************************)
(* Properties.  Each is stated over `last`, the record of the last call.   *)
(***************************************************************************)
\* the launches of a trace that ran to an exit, and what they exited with
RanToExit(e) == e.ev = "launch" /\ e.res.ok
ExitedWith0(e) == RanToExit(e) /\ e.res.v.code = [some |-> TRUE, v |-> 0]
ExitedOtherwise(e) == RanToExit(e) /\ e.res.v.code # [some |-> TRUE, v |-> 0]

\* C1: WitnessTester.expect_fail returns success exactly when the generate_witness
\* call it makes returns an error, and returns an error when that call returns
\* success; it calls generate_witness at most once, and not at all only when
\* ensure_compiled failed, whose error it then returns.
C1_ExpectFailInverts ==
    (last.who = "wt" /\ last.op = "expect_fail") =>
        LET gw == Returned(last.tr, "generate_witness")
        IN  /\ Cardinality(gw) <= 1
            /\ last.res.ok <=> (\E i \in gw : ~last.tr[i].res.ok)
            /\ (\E i \in gw : last.tr[i].res.ok) =>
                   (~last.res.ok /\ last.res.v.kind = "Other")
            /\ gw = {} => (\E i \in Returned(last.tr, "compile") : last.tr[i].res = last.res)
\* expect_fail has succeeded on inputs the circuit rejects
C1_Witness ==
    /\ last.who = "wt" /\ last.op = "expect_fail" /\ last.res = Ok(Unit)
    /\ \E i \in Returned(last.tr, "generate_witness") :
          ~last.tr[i].res.ok /\ last.tr[i].res.v.kind = "WitnessGenerationFailed"

\* C2: when the verifier command of a verify call exits unsuccessfully, verify
\* returns Ok(false) if the captured standard error holds "Invalid proof" or
\* "INVALID", and the error VerificationFailed with that standard error otherwise;
\* it never returns Ok(true) then.
C2_VerifyClassifiesFailure ==
    last.op = "verify" =>
        \A i \in LaunchesOf(last.tr, "verify") :
            ExitedOtherwise(last.tr[i]) =>
                LET stderr == last.tr[i].res.v.stderr
                IN  IF contains(stderr, T_InvalidProof) \/ contains(stderr, T_INVALID)
                    THEN last.res = Ok([b |-> FALSE])
                    ELSE /\ ~last.res.ok
                         /\ last.res.v.kind = "VerificationFailed"
                         /\ last.res.v.message = Txt(stderr)
\* a verify call whose verifier exited with 1 and the marker has returned Ok(false)
C2_Witness ==
    /\ last.op = "verify" /\ last.res = Ok([b |-> FALSE])
    /\ \E i \in LaunchesOf(last.tr, "verify") :
          ExitedOtherwise(last.tr[i]) /\ contains(last.tr[i].res.v.stderr, T_InvalidProof)

\* C3: within one setup call, the verification-key export is launched only after
\* the proving-key generation was launched and exited with 0; when the proving-key
\* generation does not exit with 0, setup returns an error and launches no export.
C3_ExportOnlyAfterKeyGeneration ==
    last.op = "setup" =>
        /\ \A i \in LaunchesOf(last.tr, "export_vkey") :
              \E j \in LaunchesOf(last.tr, "setup") : j < i /\ ExitedWith0(last.tr[j])
        /\ (\E j \in LaunchesOf(last.tr, "setup") : ~ExitedWith0(last.tr[j])) =>
              (~last.res.ok /\ LaunchesOf(last.tr, "export_vkey") = {})
\* a setup call whose proving-key generation ran and failed
C3_Witness ==
    /\ last.op = "setup" /\ ~last.res.ok
    /\ \E j \in LaunchesOf(last.tr, "setup") : ExitedOtherwise(last.tr[j])

\* C4: once a WitnessTester is compiled it stays compiled, and no later call of it
\* launches the compiler, also when the build directory was removed or changed
\* from outside in between.
C4_CompiledIsSticky ==
    [][ /\ wt_compiled => wt_compiled'
        /\ (last'.who = "wt" /\ last'.pre.compiled) =>
               (wt_compiled' /\ ~Launched(last'.tr, "circom")) ]_vars
\* a compiled tester was used after its witness module was removed: it did not
\* compile again
C4_Witness ==
    /\ last.who = "wt" /\ last.op = "expect_pass" /\ last.pre.compiled
    /\ last.res = Err(CircuitNotFound(<<"build", "mul", "mul_js", "mul.wasm">>))
    /\ wt_compiled

\* C5 (as stated): after a compile call of a ProofTester has succeeded, no later
\* call of that tester launches the compiler again.
C5_NoRecompileAfterCompile ==
    (last.who = "pt" /\ last.pre.has_compiled) => ~Launched(last.tr, "circom")
\* C5 (amended): only Ready is memoised.  After setup_complete is set, it stays
\* set and no call launches the compiler or a key-setup command; until then
\* every call compiles again.
C5_ReadyIsSticky ==
    last.who = "pt" =>
        IF last.pre.setup_complete
        THEN /\ pt_setup_complete
             /\ ~Launched(last.tr, "circom")
             /\ ~Launched(last.tr, "setup")
             /\ ~Launched(last.tr, "export_vkey")
             /\ Returned(last.tr, "compile") = {} /\ Returned(last.tr, "setup") = {}
        ELSE /\ Returned(last.tr, "compile") # {}
             /\ pt_setup_complete <=>
                   (\E i \in Returned(last.tr, "setup") : last.tr[i].res.ok)
\* a Ready tester has generated a proof
C5_Witness ==
    last.who = "pt" /\ last.pre.setup_complete /\ Launched(last.tr, "prove")

\* C6: two consecutive successful compile calls with the same circuit
\* configuration leave the same entry-point file and return the same artifact
\* paths.
C6_CompileTwice ==
    [][ ( /\ last.who = "kit" /\ last.op = "compile" /\ last.res.ok
          /\ last'.who = "kit" /\ last'.op = "compile" /\ last'.res.ok
          /\ last'.args = last.args ) =>
        LET main == config.dir_build \o <<"main", last.args.c.name \o ".circom">>
        IN  /\ main \in DOMAIN fs /\ main \in DOMAIN fs'
            /\ fs'[main] = fs[main]
            /\ last'.res = last.res ]_vars
\* a successful compile call found the entry point it wrote already on disk, with
\* the same content
C6_Witness ==
    /\ last.who = "kit" /\ last.op = "compile" /\ last.res.ok
    /\ \E i \in 1..Len(last.tr) :
          /\ last.tr[i].ev = "write"
          /\ last.pre.main = last.tr[i].content

\* decimal notation, read place by place: an optional minus sign, then digits
IsDecimal(s) ==
    LET d == IF Len(s) > 0 /\ s[1] = "-" THEN Tail(s) ELSE s
    IN  Len(d) > 0 /\ \A i \in 1..Len(d) : d[i] \in {"0","1","2","3","4","5","6","7","8","9"}
RECURSIVE Pow10(_)
Pow10(k) == IF k = 0 THEN 1 ELSE 10 * Pow10(k - 1)
RECURSIVE PlaceSum(_)
PlaceSum(d) ==
    IF Len(d) = 0 THEN 0
    ELSE DigitVal(d[1]) * Pow10(Len(d) - 1) + PlaceSum(Tail(d))
DecimalValue(s) == IF s[1] = "-" THEN 0 - PlaceSum(Tail(s)) ELSE PlaceSum(s)

\* C7: compare_signals takes a decimal string and an integer for equal exactly
\* when their numeric values are equal, whichever of the two is the string; two
\* arrays are equal exactly when they have the same length and their entries are
\* equal pairwise under compare_signals.
C7_CompareSignals ==
    last.op = "compare_signals" =>
        LET a == last.args.actual
            e == last.args.expected
            got == last.res.v.b
        IN  /\ (a.tag = "Single" /\ e.tag = "Number" /\ IsDecimal(a.s)) =>
                   (got <=> DecimalValue(a.s) = e.n)
            /\ (a.tag = "Number" /\ e.tag = "Single" /\ IsDecimal(e.s)) =>
                   (got <=> DecimalValue(e.s) = a.n)
            /\ (a.tag = "Array" /\ e.tag = "Array") =>
                   (got <=> /\ Len(a.a) = Len(e.a)
                            /\ \A i \in 1..Len(a.a) :
                                  i <= Len(e.a) /\ compare_signals(a.a[i], e.a[i]))
\* the string "02" was compared with the integer 2 and found equal
C7_Witness ==
    /\ last.op = "compare_signals"
    /\ last.args.actual = Single(<<"0", "2">>) /\ last.args.expected = Number(2)
    /\ last.res = Ok([b |-> TRUE])

\* C8 (as stated): when expect_tampered_fails hands verify a proof with one public
\* signal changed and the verifier command runs and reports the proof invalid,
\* verify returns Ok(false).
C8_TamperedIsRejected ==
    (last.who = "pt" /\ last.op = "expect_tampered_fails") =>
        \A i \in LaunchesOf(last.tr, "verify") :
            (RanToExit(last.tr[i]) /\ last.tr[i].res.v \in RejectReports) =>
                \E j \in Returned(last.tr, "verify") : last.tr[j].res = Ok([b |-> FALSE])

\* C9: generate_witness called while <build>/<name>/<name>_js/<name>.wasm does not
\* exist returns CircuitNotFound with that path, writes no file (no input file
\* appears) and launches no command.
C9_WitnessNeedsModule ==
    (last.op = "generate_witness" /\ ~last.pre.wasm) =>
        LET name == last.args.c.name
            wasm == config.dir_build \o <<name, name \o "_js", name \o ".wasm">>
            input == config.dir_build \o <<name, "input.json">>
        IN  /\ last.res = Err([kind |-> "CircuitNotFound", path |-> wasm])
            /\ last.tr = << >>
            /\ (input \in DOMAIN fs) = last.pre.input
\* generate_witness was called in an existing build directory without the module
C9_Witness ==
    /\ last.op = "generate_witness" /\ ~last.pre.wasm
    /\ <<"build", "mul">> \in DOMAIN fs
    /\ ~last.res.ok

\* C10: setup returns CircuitNotFound when the constraint system is missing
\* (whether or not the trusted-setup file exists) and PtauNotFound when the
\* constraint system exists and the trusted-setup file does not; in both cases it
\* launches no command and creates no key file.
C10_SetupPreconditions ==
    (last.op = "setup" /\ (~last.pre.r1cs \/ ~last.pre.ptau)) =>
        LET name == last.args.c.name
            dir == config.dir_build \o <<name>>
            r1cs == dir \o <<name \o ".r1cs">>
            zkey == dir \o <<config.protocol \o "_pkey.zkey">>
            vkey == dir \o <<config.protocol \o "_vkey.json">>
        IN  /\ last.res = IF ~last.pre.r1cs
                          THEN Err([kind |-> "CircuitNotFound", path |-> r1cs])
                          ELSE Err([kind |-> "PtauNotFound", path |-> last.args.ptau])
            /\ last.tr = << >>
            /\ (zkey \in DOMAIN fs) = last.pre.zkey
            /\ (vkey \in DOMAIN fs) = last.pre.vkey
\* setup was called with neither the constraint system nor the trusted-setup file
C10_Witness ==
    /\ last.op = "setup" /\ ~last.pre.r1cs /\ ~last.pre.ptau
    /\ last.res.v.kind = "CircuitNotFound"

\* C11 (as stated): whenever the proving key does not exist, prove returns
\* ProofGenerationFailed ("run setup first") and launches no prove subcommand.
C11_NoKeyMeansProofFailed ==
    (last.who = "kit" /\ last.op = "prove" /\ ~last.pre.zkey) =>
        /\ last.res = Err([kind |-> "ProofGenerationFailed",
                           message |-> Lit("Proving key not found. Run setup first.")])
        /\ ~Launched(last.tr, "prove")
\* C11 (amended): the witness stage comes first.  When the proving key does not
\* exist, prove launches no prove subcommand; it returns ProofGenerationFailed
\* ("run setup first") if its witness stage succeeded, and the witness stage's
\* error otherwise.
C11_NoKeyAfterWitness ==
    (last.who = "kit" /\ last.op = "prove" /\ ~last.pre.zkey) =>
        /\ ~Launched(last.tr, "prove")
        /\ Cardinality(Returned(last.tr, "generate_witness")) = 1
        /\ \A i \in Returned(last.tr, "generate_witness") :
              IF last.tr[i].res.ok
              THEN last.res = Err([kind |-> "ProofGenerationFailed",
                                   message |-> Lit("Proving key not found. Run setup first.")])
              ELSE last.res = last.tr[i].res
\* prove was called on a compiled circuit without keys: the witness was computed,
\* then the missing key was reported
C11_Witness ==
    /\ last.who = "kit" /\ last.op = "prove" /\ ~last.pre.zkey
    /\ Launched(last.tr, "node")
    /\ ~last.res.ok /\ last.res.v.kind = "ProofGenerationFailed"

\* C12: whenever the verification key does not exist, verify returns
\* VerificationFailed ("run setup first"), writes no temp file and launches no
\* external command (it does nothing at all before returning).
C12_NoKeyMeansVerificationFailed ==
    (last.who = "kit" /\ last.op = "verify" /\ ~last.pre.vkey) =>
        /\ last.res = Err([kind |-> "VerificationFailed",
                           message |-> Lit("Verification key not found. Run setup first.")])
        /\ \A i \in 1..Len(last.tr) : last.tr[i].ev \notin {"write", "launch"}
        /\ ~exists(fs, temp_proof_path(config, last.args.c))
        /\ ~exists(fs, temp_public_path(config, last.args.c))
\* verify was called for a compiled circuit whose keys were never generated
C12_Witness ==
    /\ last.who = "kit" /\ last.op = "verify" /\ ~last.pre.vkey
    /\ exists(fs, r1cs_path(config, last.args.c))
    /\ ~last.res.ok /\ last.res.v.kind = "VerificationFailed"

\* the two temp files of a verify call were both written
TempFilesWritten ==
    /\ \E i \in 1..Len(last.tr) :
          last.tr[i].ev = "write" /\ last.tr[i].path = temp_proof_path(config, last.args.c)
    /\ \E i \in 1..Len(last.tr) :
          last.tr[i].ev = "write" /\ last.tr[i].path = temp_public_path(config, last.args.c)
NoFailedDelete == \A i \in 1..Len(last.tr) : last.tr[i].ev # "delete_failed"
\* C13 (as stated): once verify has written both temp files, both are deleted
\* before it returns, for every outcome including a failure to launch the
\* verify command; with no failing delete neither file exists afterwards.
C13_TempFilesDeleted ==
    (last.who = "kit" /\ last.op = "verify" /\ TempFilesWritten /\ NoFailedDelete) =>
        /\ ~exists(fs, temp_proof_path(config, last.args.c))
        /\ ~exists(fs, temp_public_path(config, last.args.c))
\* what the code does: the files are deleted whenever the verify command was
\* launched and ran to its exit, whatever it reported
C13_TempFilesDeletedAfterExit ==
    (/\ last.who = "kit" /\ last.op = "verify" /\ TempFilesWritten /\ NoFailedDelete
     /\ \E i \in LaunchesOf(last.tr, "verify") : RanToExit(last.tr[i])) =>
        /\ ~exists(fs, temp_proof_path(config, last.args.c))
        /\ ~exists(fs, temp_public_path(config, last.args.c))
C13_Witness ==
    /\ last.who = "kit" /\ last.op = "verify" /\ TempFilesWritten /\ NoFailedDelete
    /\ \E i \in LaunchesOf(last.tr, "verify") : ExitedOtherwise(last.tr[i])
    /\ ~exists(fs, temp_proof_path(config, last.args.c))

\* C14: when the verify command exits zero, verify returns Ok(true) if its
\* standard output contains "OK" or "valid", and Ok(false), not an error,
\* otherwise.
C14_ZeroExitIsClassifiedByStdout ==
    (last.who = "kit" /\ last.op = "verify") =>
        \A i \in LaunchesOf(last.tr, "verify") :
            ExitedWith0(last.tr[i]) =>
                last.res = Ok([b |-> contains(last.tr[i].res.v.stdout, T_OK)
                                     \/ contains(last.tr[i].res.v.stdout, T_valid)])
\* the verify command exited zero without a success marker: Ok(false)
C14_Witness ==
    /\ last.who = "kit" /\ last.op = "verify"
    /\ \E i \in LaunchesOf(last.tr, "verify") :
          /\ ExitedWith0(last.tr[i])
          /\ ~contains(last.tr[i].res.v.stdout, T_OK)
          /\ ~contains(last.tr[i].res.v.stdout, T_valid)
    /\ last.res = Ok([b |-> FALSE])

\* C15: compile returns ToolNotFound naming the configured compiler command when
\* the compiler binary is not found, and CommandFailed with the configured
\* command name, the exit code and the whole captured stderr when the compiler
\* exits nonzero; it returns success only if the compiler was launched and
\* exited zero.
C15_CompileErrors ==
    (last.who = "kit" /\ last.op = "compile") =>
        /\ \A i \in LaunchesOf(last.tr, "circom") :
              LET e == last.tr[i]
              IN  /\ e.prog = circom_command(config)
                  /\ (~e.res.ok /\ e.res.v.not_found) =>
                        last.res = Err([kind |-> "ToolNotFound", tool |-> circom_command(config)])
                  /\ (ExitedOtherwise(e) /\ e.res.v.code.some) =>
                        last.res = Err([kind |-> "CommandFailed",
                                        command |-> circom_command(config),
                                        exit_code |-> e.res.v.code.v,
                                        stderr |-> e.res.v.stderr])
        /\ last.res.ok =>
              /\ Cardinality(LaunchesOf(last.tr, "circom")) = 1
              /\ \A i \in LaunchesOf(last.tr, "circom") : ExitedWith0(last.tr[i])
\* the compiler ran, printed a diagnostic and exited with a nonzero code
C15_Witness ==
    /\ last.who = "kit" /\ last.op = "compile"
    /\ \E i \in LaunchesOf(last.tr, "circom") :
          /\ ExitedOtherwise(last.tr[i]) /\ last.tr[i].res.v.code.some
          /\ last.tr[i].res.v.stderr # T_Empty
    /\ ~last.res.ok /\ last.res.v.kind = "CommandFailed"

\* the artifact paths as a function of build root, circuit name and protocol
\* alone; with_keys says whether the two key paths are populated
ArtifactsOf(build, name, protocol, with_keys) ==
    [r1cs |-> build \o <<name, name \o ".r1cs">>,
     wasm |-> build \o <<name, name \o "_js", name \o ".wasm">>,
     sym |-> build \o <<name, name \o ".sym">>,
     pkey |-> IF with_keys
              THEN [some |-> TRUE, v |-> build \o <<name, protocol \o "_pkey.zkey">>]
              ELSE None,
     vkey |-> IF with_keys
              THEN [some |-> TRUE, v |-> build \o <<name, protocol \o "_vkey.json">>]
              ELSE None]
\* C16: a successful compile returns artifacts with both key paths unset; a
\* successful setup returns the same constraint-system, witness-module and
\* symbol-table paths with both key paths populated; every path is a function of
\* the circuit name, the build root and the protocol only.
C16_ArtifactPaths ==
    /\ (last.who = "kit" /\ last.op = "compile" /\ last.res.ok) =>
          last.res.v = ArtifactsOf(config.dir_build, last.args.c.name, config.protocol, FALSE)
    /\ (last.who = "kit" /\ last.op = "setup" /\ last.res.ok) =>
          last.res.v = ArtifactsOf(config.dir_build, last.args.c.name, config.protocol, TRUE)
\* a successful setup of the parameterised circuit under the non-default
\* configuration: the key paths are populated and the files are there
C16_Witness ==
    /\ last.who = "kit" /\ last.op = "setup" /\ last.res.ok
    /\ last.args.c = CircB /\ config = CustomConfig
    /\ last.res.v.pkey.some /\ exists(fs, last.res.v.pkey.v)
    /\ last.res.v.vkey.some /\ exists(fs, last.res.v.vkey.v)
    /\ exists(fs, last.res.v.r1cs) /\ exists(fs, last.res.v.wasm) /\ exists(fs, last.res.v.sym)

\* C17: in every prove call the witness stage runs first.  The prove subcommand
\* is launched only after the call's generate_witness returned successfully,
\* with the witness path that stage returned; the witness it reads there is the
\* one computed from the call's inputs.  If the witness stage fails, prove
\* returns that error and the prover is not launched.
C17_WitnessStageFirst ==
    (last.who = "kit" /\ last.op = "prove") =>
        /\ Cardinality(Returned(last.tr, "generate_witness")) = 1
        /\ \A g \in Returned(last.tr, "generate_witness") :
              /\ \A i \in 1..Len(last.tr) :
                    (last.tr[i].ev \in {"launch", "write"} /\ i < g) =>
                        \/ last.tr[i].ev = "write"
                              /\ last.tr[i].path = input_json_path(config, last.args.c)
                        \/ last.tr[i].ev = "launch" /\ last.tr[i].cmd = "node"
              /\ ~last.tr[g].res.ok =>
                    last.res = last.tr[g].res /\ ~Launched(last.tr, "prove")
              /\ \A i \in LaunchesOf(last.tr, "prove") :
                    /\ g < i
                    /\ last.tr[g].res.ok
                    /\ last.tr[g].res.v.path = witness_path(config, last.args.c)
                    /\ RanToExit(last.tr[i]) /\ last.tr[i].read # NoRead =>
                          last.tr[i].read = [t |-> "wtns", of |-> last.args.inputs]
\* one prove call computed the witness and then ran the prover on it
C17_Witness ==
    /\ last.who = "kit" /\ last.op = "prove" /\ last.res.ok
    /\ \E g \in Returned(last.tr, "generate_witness"), i \in LaunchesOf(last.tr, "prove") :
          /\ g < i /\ last.tr[g].res.ok
          /\ ExitedWith0(last.tr[i])
          /\ last.tr[i].read = [t |-> "wtns", of |-> last.args.inputs]

\* C18: an error returned by a stage a tester operation runs (compile, setup,
\* generate_witness, read_witness_outputs, info, prove, verify, export_verifier)
\* is returned unchanged by the operation, except in expect_fail and
\* expect_invalid_inputs, where an error of the witness or prove stage becomes
\* success; an error of the compile or setup stage propagates in these two as well.
C18_ErrorsPropagate ==
    (last.who \in {"wt", "pt"}) =>
        \A i \in 1..Len(last.tr) :
            (last.tr[i].ev = "ret" /\ ~last.tr[i].res.ok) =>
                IF /\ last.op \in {"expect_fail", "expect_invalid_inputs"}
                   /\ last.tr[i].fn \in {"generate_witness", "prove"}
                THEN last.res = Ok(Unit)
                ELSE last.res = last.tr[i].res
\* a proof-tester operation whose verify stage failed after a successful prove
\* stage, and returned the verify stage's error
C18_Witness ==
    /\ last.who = "pt" /\ last.op \in {"prove_and_verify", "expect_valid_proof"}
    /\ \E i \in Returned(last.tr, "prove") : last.tr[i].res.ok
    /\ \E i \in Returned(last.tr, "verify") :
          ~last.tr[i].res.ok /\ last.res = last.tr[i].res

\* a launch that failed: the command could not be started, or ran and did not
\* exit with code zero
FailedLaunch(e) == e.ev = "launch" /\ (~e.res.ok \/ ExitedOtherwise(e))
NoCommandTwice ==
    \A i, j \in Launches(last.tr) : last.tr[i].cmd = last.tr[j].cmd => i = j
C19_FallbackTaken ==
    /\ last.op = "download_ptau" /\ last.res.ok
    /\ \E i \in LaunchesOf(last.tr, "curl"), j \in LaunchesOf(last.tr, "wget") :
          i < j /\ ExitedOtherwise(last.tr[i]) /\ ExitedWith0(last.tr[j])

\* the last time the input file was written before position i of the trace
LastWriteBefore(i) ==
    LET W == {j \in 1..(i - 1) : last.tr[j].ev = "write"}
    IN  IF W = {} THEN 0 ELSE CHOOSE j \in W : \A j2 \in W : j2 <= j
\* C20: concurrent calls of generate_witness for one circuit share one input
\* file and take no lock.  The node of a call reads what was last written to
\* that file by either call, not what its own call wrote; a call that returns
\* a witness returns the witness of what its node read.
C20_SharedInputFile ==
    (last.who = "par") =>
        /\ \A i \in 1..Len(last.tr) :
              last.tr[i].ev = "read" =>
                  last.tr[i].content =
                      IF LastWriteBefore(i) = 0 THEN NoRead
                      ELSE last.tr[LastWriteBefore(i)].content
        /\ \A k \in CallIds :
              (calls[k].pc = "done" /\ calls[k].res.ok) =>
                  /\ calls[k].read.t = "json" /\ Satisfies(calls[k].read.v)
                  /\ calls[k].res.v.path = witness_path(config, TesterCircuit)
\* the interleaving of the claim: two calls with different inputs both
\* returned a witness, and the node of call 1 read the inputs of call 2
C20_Witness ==
    /\ last.who = "par"
    /\ calls[1].inputs # calls[2].inputs
    /\ calls[1].pc = "done" /\ calls[1].res.ok
    /\ calls[2].pc = "done" /\ calls[2].res.ok
    /\ calls[1].read = [t |-> "json", v |-> calls[2].inputs]
    /\ fs[witness_path(config, TesterCircuit)].of # calls[1].inputs

\* the files of a circuit: every path a pipeline operation on it writes or deletes
Footprint(cfg, c) ==
    {main_path(cfg, c), r1cs_path(cfg, c), wasm_file(cfg, c), witness_calc(cfg, c),
     sym_path(cfg, c), input_json_path(cfg, c), witness_path(cfg, c), zkey_path(cfg, c),
     vkey_path(cfg, c), proof_path(cfg, c), public_path(cfg, c), temp_proof_path(cfg, c),
     temp_public_path(cfg, c), verifier_path(cfg, c)}
\* the paths whose existence or content differs between two file systems
Changed(f, g) ==
    {p \in DOMAIN f \cup DOMAIN g :
        \/ ~(p \in DOMAIN f /\ p \in DOMAIN g)
        \/ (p \in DOMAIN f /\ p \in DOMAIN g /\ f[p] # g[p])}
\* what the six operations on a circuit can return and do, from a file system
Outcomes(f, cfg, c) ==
    LET Obs(S) == {[res |-> r.res, tr |-> r.tr] : r \in S}
    IN  <<Obs(compile(f, cfg, c)), Obs(generate_witness(f, cfg, c, InGood)),
          Obs(setup(f, cfg, c, PtauFile(cfg))), Obs(prove(f, cfg, c, InGood)),
          Obs(verify(f, cfg, c, ProofFor(cfg, InGood), PublicOf(InGood))),
          Obs(export_verifier(f, cfg, c))>>
BadSignals(expected, outputs) ==
    {n \in DOMAIN expected :
        n \notin DOMAIN outputs \/ ~compare_signals(outputs[n], expected[n])}
\* C22: expect_output returns a result, not an error, once the outputs were
\* decoded.  Its passed flag is true iff every expected name is among the
\* decoded outputs and compares equal; the diagnostic is absent iff passed is
\* true, and otherwise holds exactly one entry per missing or differing expected
\* signal, joined with "; ".  Decoded signals that are not expected play no part.
C22_ExpectOutputResult ==
    (last.who = "wt" /\ last.op = "expect_output") =>
        /\ (\E i \in Returned(last.tr, "read_witness_outputs") : last.tr[i].res.ok)
              => last.res.ok
        /\ last.res.ok =>
              LET bad == BadSignals(last.args.expected, last.res.v.outputs)
                  diag == last.res.v.error
              IN  /\ last.res.v.passed = (bad = {})
                  /\ diag.some = (bad # {})
                  /\ diag.some =>
                        /\ Len(diag.v) = 2 * Cardinality(bad) - 1
                        /\ \A i \in 1..Len(diag.v) : (i % 2 = 0) => diag.v[i] = "; "
                        /\ \A n \in bad :
                              Cardinality({i \in 1..Len(diag.v) :
                                              i % 2 = 1 /\ diag.v[i].signal = n}) = 1
                        /\ \A i \in 1..Len(diag.v) :
                              (i % 2 = 1) =>
                                  /\ diag.v[i].signal \in bad
                                  /\ (diag.v[i].what = "not found")
                                        = (diag.v[i].signal \notin DOMAIN last.res.v.outputs)
\* a comparison with one differing and one missing expected signal, while
\* the decoded outputs hold signals that were not expected
C22_Witness ==
    /\ last.who = "wt" /\ last.op = "expect_output" /\ last.res.ok
    /\ ~last.res.v.passed
    /\ Cardinality(BadSignals(last.args.expected, last.res.v.outputs)) = 2
    /\ \E n \in DOMAIN last.res.v.outputs : n \notin DOMAIN last.args.expected
C22_WitnessPassed ==
    /\ last.who = "wt" /\ last.op = "expect_output" /\ last.res.ok
    /\ last.res.v.passed /\ ~last.res.v.error.some
    /\ \E n \in DOMAIN last.res.v.outputs : n \notin DOMAIN last.args.expected

\* the constraint count a statistics report states, if it states one
StatedCount(report) ==
    IF report \in {InfoPlain, InfoLogger} THEN [some |-> TRUE, v |-> 5] ELSE [some |-> FALSE]
\* C23 (as stated): expect_constraint_count(n) succeeds iff the report of the
\* statistics command states exactly n constraints, and otherwise returns
\* ConstraintNotSatisfied; it never succeeds on a report stating another count
\* or none.
C23_CountIsTheReported ==
    (last.who = "wt" /\ last.op = "expect_constraint_count") =>
        \A i \in LaunchesOf(last.tr, "info") :
            ExitedWith0(last.tr[i]) =>
                LET stated == StatedCount(last.tr[i].res.v.stdout)
                IN  /\ last.res.ok = (stated.some /\ stated.v = last.args.expected)
                    /\ ~last.res.ok => last.res.v.kind = "ConstraintNotSatisfied"
\* what the code does: the count compared is the one info parsed, which is 0
\* when the report has no line of the form "Constraints: <digits>"
C23_CountIsTheParsed ==
    (last.who = "wt" /\ last.op = "expect_constraint_count") =>
        \A i \in Returned(last.tr, "info") :
            last.tr[i].res.ok =>
                IF last.tr[i].res.v.constraints = last.args.expected
                THEN last.res = Ok(Unit)
                ELSE last.res = Err([kind |-> "ConstraintNotSatisfied",
                                     expected |-> ToString(last.args.expected),
                                     actual |-> ToString(last.tr[i].res.v.constraints)])
C23_Witness ==
    /\ last.who = "wt" /\ last.op = "expect_constraint_count" /\ last.args.expected = 5
    /\ \E i \in LaunchesOf(last.tr, "info") :
          ExitedWith0(last.tr[i]) /\ last.tr[i].res.v.stdout = InfoLogger
    /\ ~last.res.ok /\ last.res.v.kind = "ConstraintNotSatisfied" /\ last.res.v.actual = "0"

\* a name without a dot: a signal declared directly in the entry component
TopLevel(name) == \A i \in 1..Len(name) : name[i] # "."
\* the records of a symbol table that name a signal of the entry component itself
TopLevelRecords(sym) ==
    {i \in 1..Len(sym) :
        /\ Len(sym[i]) >= 4
        /\ starts_with(sym[i][4], T_MainDot)
        /\ TopLevel(SubSeq(sym[i][4], Len(T_MainDot) + 1, Len(sym[i][4])))}
\* C24 (as stated): the decoded outputs are exactly the top-level signals of
\* the entry component, keyed by the name without the "main." prefix and valued
\* by the witness element at the record's index; signals of nested
\* sub-components are not included.
C24_TopLevelSignalsOnly ==
    (/\ last.who = "wt" /\ last.op = "expect_pass" /\ last.res.ok
     /\ \E i \in LaunchesOf(last.tr, "wtns_export") : ExitedWith0(last.tr[i])) =>
        LET sym == SymTable.v
            vec == WitnessVector(last.args.inputs)
            out == last.res.v.map
            Rec == {i \in TopLevelRecords(sym) : DecimalValue(sym[i][1]) < Len(vec)}
        IN  /\ \A k \in DOMAIN out : TopLevel(k)
            /\ DOMAIN out =
                  {SubSeq(sym[i][4], Len(T_MainDot) + 1, Len(sym[i][4])) : i \in Rec}
            /\ \A i \in Rec :
                  out[SubSeq(sym[i][4], Len(T_MainDot) + 1, Len(sym[i][4]))]
                      = [tag |-> "Single", s |-> vec[DecimalValue(sym[i][1]) + 1]]
\* what the code does: every record whose name starts with "main." is
\* included, nested ones too, under the rest of the name
C24_EverythingUnderMain ==
    (/\ last.who = "wt" /\ last.op = "expect_pass" /\ last.res.ok
     /\ \E i \in LaunchesOf(last.tr, "wtns_export") : ExitedWith0(last.tr[i])) =>
        LET sym == SymTable.v
            vec == WitnessVector(last.args.inputs)
            out == last.res.v.map
            Rec == {i \in 1..Len(sym) :
                       /\ Len(sym[i]) >= 4 /\ starts_with(sym[i][4], T_MainDot)
                       /\ DecimalValue(sym[i][1]) < Len(vec)}
        IN  /\ DOMAIN out =
                  {SubSeq(sym[i][4], Len(T_MainDot) + 1, Len(sym[i][4])) : i \in Rec}
            /\ \A i \in Rec :
                  out[SubSeq(sym[i][4], Len(T_MainDot) + 1, Len(sym[i][4]))]
                      = [tag |-> "Single", s |-> vec[DecimalValue(sym[i][1]) + 1]]
C24_Witness ==
    /\ last.who = "wt" /\ last.op = "expect_pass" /\ last.res.ok
    /\ <<"s","u","b",".","x">> \in DOMAIN last.res.v.map
    /\ <<"o","u","t">> \in DOMAIN last.res.v.map

\* the export command of the last call ran and exited unsuccessfully
ExportFailed ==
    \E i \in LaunchesOf(last.tr, "wtns_export") : ExitedOtherwise(last.tr[i])
C25_WitnessPass ==
    /\ last.who = "wt" /\ last.op = "expect_pass" /\ ExportFailed
    /\ last.res.ok /\ last.res.v.map = EmptyMap

\* C26: Circomkit::new fails with InvalidConfig exactly when the optimization
\* level of the configuration it is given is outside {0, 1, 2}; every
\* constructed instance holds a configuration whose level is 0, 1 or 2, and no
\* operation on the instance or on a tester built on it changes the
\* configuration.
C26_ValidatedConfig ==
    /\ [](/\ (last.who = "kit" /\ last.op = "new") =>
                /\ last.res.ok = (last.args.config.optimization \in {0, 1, 2})
                /\ last.res.ok => config = last.args.config
                /\ ~last.res.ok => (last.res.v.kind = "InvalidConfig" /\ ~Constructed)
          /\ Constructed => config.optimization \in {0, 1, 2})
    /\ [][Constructed => config' = config]_vars
\* a tester operation has run on an instance built with the highest level
C26_Witness ==
    /\ Constructed /\ config.optimization = 2
    /\ last.who = "wt" /\ last.op = "ensure_compiled" /\ last.res.ok
\* a construction was refused
C26_WitnessRefused ==
    /\ last.who = "kit" /\ last.op = "new" /\ ~last.res.ok
    /\ last.args.config.optimization = 3

ResolverOps ==
    {"build_path", "input_path", "circuit_path", "ptau_path", "circom_command",
     "snarkjs_command"}
\* C27: the resolver's results are functions of the configuration and the
\* arguments alone: build_path(name) is the build root followed by name,
\* input_path(circuit, input) the inputs root followed by circuit and
\* "<input>.json", circuit_path(file) the circuits root followed by file,
\* ptau_path(f) the ptau root followed by f; the compiler and toolkit commands
\* are the configured override when one is set and "circom" / "snarkjs"
\* otherwise.  A resolver call changes nothing.
C27_ResolverPaths ==
    /\ []((last.who = "kit" /\ last.op \in ResolverOps) =>
            LET a == last.args
                v == last.res.v
            IN  /\ last.res.ok
                /\ (last.op = "build_path") => v = config.dir_build \o <<a.circuit>>
                /\ (last.op = "input_path") =>
                      v = config.dir_inputs \o <<a.circuit, a.input \o ".json">>
                /\ (last.op = "circuit_path") => v = config.dir_circuits \o a.file
                /\ (last.op = "ptau_path") => v = config.dir_ptau \o <<a.filename>>
                /\ (last.op = "circom_command") =>
                      v = (IF config.circom_path = None THEN "circom"
                           ELSE config.circom_path.v)
                /\ (last.op = "snarkjs_command") =>
                      v = (IF config.snarkjs_path = None THEN "snarkjs"
                           ELSE config.snarkjs_path.v))
    /\ [][(last'.who = "kit" /\ last'.op \in ResolverOps) =>
             /\ config' = config /\ circuits' = circuits /\ fs' = fs
             /\ (last.who = "kit" /\ last.op = last'.op /\ last.args = last'.args)
                   => last'.res = last.res]_vars
\* an input path resolved under a configuration with overrides
C27_Witness ==
    /\ last.who = "kit" /\ last.op = "input_path"
    /\ config.dir_build = <<"out">>
    /\ last.res.v = <<"inputs", "mul", "edge.json">>
\* the compiler command resolved to an override, and to the default
C27_WitnessOverride ==
    /\ last.who = "kit" /\ last.op = "circom_command" /\ last.res.v = "/opt/circom"
C27_WitnessDefault ==
    /\ last.who = "kit" /\ last.op = "snarkjs_command" /\ last.res.v = "snarkjs"

\* C30: an instance starts with no circuit; add_circuit(c) makes c the
\* configuration under c.name and leaves every other name as it was; no other
\* operation changes the map; get_circuit(n) returns the configuration the map
\* holds under n, which is therefore the one added last under that name, and
\* none for a name never added.  In particular get_circuit(c.name) right after
\* add_circuit(c) returns c.
C30_LastAddedWins ==
    /\ [](/\ (last.who = "kit" /\ last.op = "new" /\ last.res.ok) => circuits = NoCircuits
          /\ (last.who = "kit" /\ last.op = "get_circuit") =>
                LET n == last.args.name
                IN  /\ circuits = last.pre.circuits
                    /\ last.res = Ok(IF n \in DOMAIN circuits THEN Some(circuits[n])
                                     ELSE None))
    /\ [][/\ (last'.who = "kit" /\ last'.op = "add_circuit") =>
                LET c == last'.args.c
                IN  /\ DOMAIN circuits' = DOMAIN circuits \cup {c.name}
                    /\ circuits'[c.name] = c
                    /\ \A n \in DOMAIN circuits \ {c.name} : circuits'[n] = circuits[n]
          /\ (Constructed /\ ~(last'.who = "kit" /\ last'.op = "add_circuit"))
                => circuits' = circuits
          /\ (/\ last.who = "kit" /\ last.op = "add_circuit"
              /\ last'.who = "kit" /\ last'.op = "get_circuit"
              /\ last'.args.name = last.args.c.name)
                => last'.res = Ok(Some(last.args.c))]_vars
\* a second configuration was added under a name that was present
C30_Witness ==
    /\ last.who = "kit" /\ last.op = "add_circuit" /\ last.args.c = CircB
    /\ "mul" \in DOMAIN last.pre.circuits
    /\ last.pre.circuits["mul"] = CircA
    /\ circuits["mul"] = CircB
    /\ "main" \in DOMAIN circuits
\* a name never added is looked up in a map that holds others
C30_WitnessNone ==
    /\ last.who = "kit" /\ last.op = "get_circuit" /\ last.args.name = "adder"
    /\ last.res = Ok(None) /\ circuits # NoCircuits

\* the public signals the prove stage of the last call returned
Proved(tr) == {tr[i].res.v.public_signals : i \in {j \in Returned(tr, "prove") : tr[j].res.ok}}
\* the sequences the last call wrote for the verify command, and the ones the
\* command read
TempPublic == join(build_path(config, TesterCircuit.name), "temp_public.json")
Serialized(tr) ==
    {tr[i].content.v : i \in {j \in 1..Len(tr) : tr[j].ev = "write" /\ tr[j].path = TempPublic}}
SeenByVerify(tr) ==
    {tr[i].read : i \in {j \in LaunchesOf(tr, "verify") : tr[j].read # NoRead}}
\* C28: prove returns the public signals in the order of the toolkit's public
\* output; what verify serializes, and what the verify command reads, is the
\* sequence verify was given, element for element.  In the tester that is the
\* sequence prove returned, except in expect_tampered_fails, where it is that
\* sequence after the tamper hook, and in verify_proof, where it is the
\* caller's; prove_and_verify reports the sequence prove returned.
C28_PublicSignalsKeepOrder ==
    (last.who = "pt") =>
        LET tr == last.tr
            given ==
                IF last.op = "verify_proof" THEN {last.args.public_signals}
                ELSE IF last.op = "expect_tampered_fails"
                THEN {TamperEntry(last.args.k, last.args.val, ps) : ps \in Proved(tr)}
                ELSE Proved(tr)
        IN  /\ \A ps \in Proved(tr) : ps = PublicOf(last.args.inputs)
            /\ Cardinality(Proved(tr)) <= 1
            /\ Serialized(tr) \subseteq given
            /\ \A r \in SeenByVerify(tr) : r.t = "public" /\ r.v \in given
            /\ (last.op = "prove_and_verify" /\ last.res.ok) =>
                  /\ Some(PublicOf(last.args.inputs)) = last.res.v.public_signals
                  /\ Serialized(tr) = {PublicOf(last.args.inputs)}
            /\ (last.op = "generate_proof" /\ last.res.ok) =>
                  last.res.v.public_signals = PublicOf(last.args.inputs)
\* a proof was made and verified by the tester, with two distinct public signals
C28_Witness ==
    /\ last.who = "pt" /\ last.op = "prove_and_verify" /\ last.res.ok
    /\ last.res.v.valid
    /\ Serialized(last.tr) = {<< <<"1", "2">>, <<"3">> >>}
    /\ SeenByVerify(last.tr) = {[t |-> "public", v |-> << <<"1", "2">>, <<"3">> >>]}

StageRets(tr) ==
    Returned(tr, "compile") \cup Returned(tr, "setup") \cup Returned(tr, "prove")
        \cup Returned(tr, "verify")
StillValid == OtherError("Expected verification to fail for tampered signals, but it passed")
\* C29: expect_tampered_fails returns success exactly when its verify call
\* returned false, which takes ensure_setup and prove to have succeeded; it
\* returns an error of its own when verify returned true; verify is given the
\* signals prove returned with the hook applied, so the hook runs after prove
\* and before verify; an error of compile, setup, prove or verify is the call's
\* result, unchanged.
C29_TamperedFails ==
    (last.who = "pt" /\ last.op = "expect_tampered_fails") =>
        LET tr == last.tr
        IN  /\ last.res.ok = (\E i \in Returned(tr, "verify") : tr[i].res = Ok([b |-> FALSE]))
            /\ last.res.ok => last.res.v = Unit
            /\ (\E i \in Returned(tr, "verify") : tr[i].res = Ok([b |-> TRUE]))
                  => last.res = Err(StillValid)
            /\ \A i \in StageRets(tr) : ~tr[i].res.ok => last.res = tr[i].res
            /\ (\A i \in StageRets(tr) : tr[i].res.ok) =>
                  (last.res.ok \/ last.res = Err(StillValid))
            /\ \A i \in Returned(tr, "verify") :
                  /\ \A j \in StageRets(tr) : j < i => tr[j].res.ok
                  /\ \E j \in Returned(tr, "prove") : j < i
                  /\ pt_setup_complete
            /\ \A w \in 1..Len(tr) :
                  (tr[w].ev = "write" /\ tr[w].path = TempPublic) =>
                      \E j \in Returned(tr, "prove") :
                          /\ j < w /\ tr[j].res.ok
                          /\ tr[w].content.v =
                                TamperEntry(last.args.k, last.args.val,
                                            tr[j].res.v.public_signals)
\* the tampered signals were rejected and the call succeeded
C29_Witness ==
    /\ last.who = "pt" /\ last.op = "expect_tampered_fails" /\ last.res.ok
    /\ Serialized(last.tr) = {<< <<"1", "2">>, <<"9">> >>}
\* the verify call returned true and the call failed
C29_WitnessStillValid ==
    /\ last.who = "pt" /\ last.op = "expect_tampered_fails"
    /\ last.res = Err(StillValid)
\* a verify error was returned
C29_WitnessVerifyError ==
    /\ last.who = "pt" /\ last.op = "expect_tampered_fails"
    /\ \E i \in Returned(last.tr, "verify") : ~last.tr[i].res.ok /\ last.res = last.tr[i].res

\* the writes of a path in a trace
WritesOf(tr, path) == {i \in 1..Len(tr) : tr[i].ev = "write" /\ tr[i].path = path}
C31_WitnessIdentical ==
    /\ last.who = "kit" /\ last.op = "compile" /\ last.res.ok
    /\ last.pre.main = main_content(config, last.args.c)
    /\ WritesOf(last.tr, main_path(config, last.args.c)) # {}
\* the entry point could not be written and the compiler was not launched
C31_WitnessNoWrite ==
    /\ last.who = "kit" /\ last.op = "compile" /\ ~last.res.ok
    /\ \E i \in 1..Len(last.tr) : last.tr[i].ev = "mkdir"
    /\ WritesOf(last.tr, main_path(config, last.args.c)) = {}
    /\ LaunchesOf(last.tr, "circom") = {}

RECURSIVE Resolve(_, _)
\* the path a relative path denotes from a directory: ".." steps to the parent
Resolve(dir, rel) ==
    IF Len(rel) = 0 THEN dir
    ELSE IF Head(rel) = ".."
    THEN Resolve(IF Len(dir) = 0 THEN dir ELSE Parent(dir), Tail(rel))
    ELSE Resolve(Append(dir, Head(rel)), Tail(rel))
\* the entry point the last compile call wrote
WrittenMain ==
    {last.tr[i].content : i \in WritesOf(last.tr, main_path(config, last.args.c))}
\* C32 (as stated): the include path of the generated entry point is the
\* absolute override verbatim when one is set; otherwise, resolved from the
\* generated file's directory <build root>/main, it denotes
\* circuit_path(file), for every configured build root and circuits directory.
C32_IncludeDenotesSource ==
    (last.who = "kit" /\ last.op = "compile") =>
        \A m \in WrittenMain :
            LET c == last.args.c
            IN  IF c.absolute_file.some
                THEN m.include = c.absolute_file.v
                ELSE Resolve(main_dir(config), m.include) = circuit_path(config, c.file)
\* what the code does: without an override the include path is two parent
\* steps followed by the circuits directory and the file, which denotes the
\* source when the build root is a single relative component
C32_TwoParentLevels ==
    (last.who = "kit" /\ last.op = "compile") =>
        \A m \in WrittenMain :
            LET c == last.args.c
            IN  IF c.absolute_file.some
                THEN m.include = c.absolute_file.v
                ELSE /\ m.include = <<"..", "..">> \o config.dir_circuits \o c.file
                     /\ (Len(config.dir_build) = 1) =>
                           Resolve(main_dir(config), m.include)
                               = circuit_path(config, c.file)
\* an entry point generated under a build root of two components
C32_Witness ==
    /\ last.who = "kit" /\ last.op = "compile"
    /\ config.dir_build = <<"target", "build">>
    /\ ~last.args.c.absolute_file.some
    /\ \E m \in WrittenMain :
          Resolve(main_dir(config), m.include) = <<"target", "circuits", "mul.circom">>

\* the pieces of a comma-joined list: the items in order, ", " between them
CommaJoined(items) ==
    [i \in 1..(IF Len(items) = 0 THEN 0 ELSE 2 * Len(items) - 1) |->
        IF i % 2 = 1 THEN items[(i + 1) \div 2] ELSE ", "]
\* C33: the instance declaration of the generated entry point holds the
\* template parameters as a parenthesized comma-joined list in declaration
\* order, empty parentheses for no parameters; the qualifier {public [...]} is
\* present iff the public-signal list is non-empty and lists the names in
\* declaration order.
C33_ParamsAndPublic ==
    (last.who = "kit" /\ last.op = "compile") =>
        \A m \in WrittenMain :
            LET c == last.args.c
                params == [i \in 1..Len(c.params) |-> ToString(c.params[i])]
                qualifier == IF Len(c.public) = 0 THEN << >>
                             ELSE <<" {public [">> \o CommaJoined(c.public) \o <<"]}">>
            IN  /\ m.decl = <<"component main">> \o qualifier \o <<" = ", c.template, "(">>
                               \o CommaJoined(params) \o <<");">>
                /\ (\E i \in 1..Len(m.decl) : m.decl[i] = " {public [") = (Len(c.public) > 0)
\* an entry point with two parameters and two public signals
C33_Witness ==
    /\ last.who = "kit" /\ last.op = "compile"
    /\ \E m \in WrittenMain :
          m.decl = <<"component main", " {public [", "a", ", ", "b", "]}", " = ", "MulN",
                     "(", "3", ", ", "-4", ");">>
\* an entry point with no parameter and no public signal
C33_WitnessEmpty ==
    /\ last.who = "kit" /\ last.op = "compile"
    /\ \E m \in WrittenMain : m.decl = <<"component main", " = ", "main", "(", ");">>

\* the launches of the commands that use the keys
KeyUsers == {"prove", "verify", "export_verifier", "calldata"}
UseLaunches(tr) == {i \in Launches(tr) : tr[i].cmd \in KeyUsers}
\* before position i of the trace, compile returned success and then setup did
SetUpBefore(tr, i) ==
    \E j \in Returned(tr, "compile"), k \in Returned(tr, "setup") :
        j < k /\ k < i /\ tr[j].res.ok /\ tr[k].res.ok
\* C34: in a proof tester every launch of the prove, verify, verifier-export or
\* calldata-export command comes after a compile and then a setup that both
\* returned success in this tester: in the same call, or in the earlier call
\* that set the memo flag, which is set only by such a call.  Within a call
\* setup is called only after compile returned, and a key-setup command is
\* launched only after compile returned success.
C34_SetupBeforeUse ==
    /\ []((last.who = "pt") =>
            LET tr == last.tr
            IN  /\ \A i \in UseLaunches(tr) :
                      last.pre.setup_complete \/ SetUpBefore(tr, i)
                /\ \A k \in Returned(tr, "setup") :
                      \E j \in Returned(tr, "compile") : j < k /\ tr[j].res.ok
                /\ \A k \in LaunchesOf(tr, "setup") \cup LaunchesOf(tr, "export_vkey") :
                      /\ \E j \in Returned(tr, "compile") : j < k /\ tr[j].res.ok
                      /\ \A j \in Returned(tr, "compile") : j < k => tr[j].res.ok)
    /\ [][(pt_setup_complete' /\ ~pt_setup_complete) =>
             SetUpBefore(last'.tr, Len(last'.tr) + 1)]_vars
\* the calldata export was launched in a call that found the setup done
C34_Witness ==
    /\ last.who = "pt" /\ last.op = "get_calldata" /\ last.res.ok
    /\ last.pre.setup_complete
    /\ LaunchesOf(last.tr, "calldata") # {}
    /\ Returned(last.tr, "compile") = {}
\* the verifier export was launched in the call that did the setup
C34_WitnessSameCall ==
    /\ last.who = "pt" /\ last.op = "export_solidity_verifier"
    /\ ~last.pre.setup_complete
    /\ \E i \in LaunchesOf(last.tr, "export_verifier") : SetUpBefore(last.tr, i)

\* a stage call of the trace returned an error
StageFailed(tr, fn) == \E i \in Returned(tr, fn) : ~tr[i].res.ok
StageSucceeded(tr, fn) == \E i \in Returned(tr, fn) : tr[i].res.ok
\* C35: both memo flags start false.  WitnessTester.compiled becomes true only
\* in a call of this tester in which compile returned success, and
\* ProofTester.setup_complete only in a call of this tester in which compile
\* and then setup returned success; a call in which the stage failed leaves
\* the flag false, and every operation that finds the flag false calls
\* compile again.
C35_MemoOnlyAfterSuccess ==
    /\ []((last.who = "none") => (~wt_compiled /\ ~pt_setup_complete))
    /\ [][/\ (wt_compiled' /\ ~wt_compiled) =>
                (last'.who = "wt" /\ StageSucceeded(last'.tr, "compile"))
          /\ (pt_setup_complete' /\ ~pt_setup_complete) =>
                (last'.who = "pt" /\ SetUpBefore(last'.tr, Len(last'.tr) + 1))
          /\ (last'.who = "wt" /\ ~wt_compiled) =>
                /\ Returned(last'.tr, "compile") # {}
                /\ StageFailed(last'.tr, "compile") => ~wt_compiled'
          /\ (last'.who = "pt" /\ ~pt_setup_complete) =>
                /\ Returned(last'.tr, "compile") # {}
                /\ (StageFailed(last'.tr, "compile") \/ StageFailed(last'.tr, "setup"))
                      => ~pt_setup_complete'
          /\ (last'.who # "wt") => wt_compiled' = wt_compiled
          /\ (last'.who # "pt") => pt_setup_complete' = pt_setup_complete]_vars
\* a witness tester whose compile failed after the entry point was written
C35_Witness ==
    /\ last.who = "wt" /\ ~last.pre.compiled /\ ~wt_compiled
    /\ StageFailed(last.tr, "compile")
    /\ exists(fs, main_path(config, TesterCircuit))
    /\ last.op = "expect_pass"
\* a proof tester whose compile succeeded and whose setup failed
C35_WitnessSetupFailed ==
    /\ last.who = "pt" /\ ~pt_setup_complete
    /\ StageSucceeded(last.tr, "compile") /\ StageFailed(last.tr, "setup")
\* both kinds of tester with the flag set
C35_WitnessSet ==
    /\ last.who = "wt" /\ wt_compiled /\ ~last.pre.compiled
C35_WitnessSetupSet ==
    /\ last.who = "pt" /\ pt_setup_complete /\ ~last.pre.setup_complete

\* C36 (as stated): expect_fail and expect_invalid_inputs return success only
\* when the witness calculator was started and exited with a nonzero code, not
\* when the stage failed for another reason.
C36_SuccessMeansRejected ==
    (last.op \in {"expect_fail", "expect_invalid_inputs"} /\ last.res.ok) =>
        \E i \in LaunchesOf(last.tr, "node") : ExitedOtherwise(last.tr[i])
\* what the code does: success is returned for every error of the stage
C36_SuccessOnAnyError ==
    (last.op \in {"expect_fail", "expect_invalid_inputs"}) =>
        LET fn == IF last.op = "expect_fail" THEN "generate_witness" ELSE "prove"
        IN  /\ last.res.ok = StageFailed(last.tr, fn)
            /\ StageSucceeded(last.tr, fn) => (~last.res.ok /\ last.res.v.kind = "Other")
\* success reported for inputs the circuit accepts: the calculator could not
\* be started
C36_Witness ==
    /\ last.who = "wt" /\ last.op = "expect_fail" /\ last.res.ok
    /\ last.args.inputs = InGood
    /\ \E i \in LaunchesOf(last.tr, "node") : ~last.tr[i].res.ok
\* success reported by the proof tester with no calculator launched
C36_WitnessProof ==
    /\ last.who = "pt" /\ last.op = "expect_invalid_inputs" /\ last.res.ok
    /\ last.args.inputs = InGood
    /\ \A i \in LaunchesOf(last.tr, "node") : ExitedWith0(last.tr[i])

\* the output of a command holds a marker of an invalid proof
SaysInvalid(output) ==
    \/ contains(output.stdout, T_InvalidProof) \/ contains(output.stdout, T_INVALID)
    \/ contains(output.stderr, T_InvalidProof) \/ contains(output.stderr, T_INVALID)
\* C37 (as stated): verify never returns Ok(true) when the output of the
\* verify command holds "Invalid proof" or "INVALID", on stdout or stderr,
\* with any exit code.
C37_NeverTrueOnInvalid ==
    (last.who = "kit" /\ last.op = "verify") =>
        \A i \in LaunchesOf(last.tr, "verify") :
            (RanToExit(last.tr[i]) /\ SaysInvalid(last.tr[i].res.v))
                => last.res # Ok([b |-> TRUE])
\* what the code does: Ok(true) is returned exactly when the command exits
\* zero and its stdout contains "OK" or "valid", which "Invalid proof" does
C37_TrueOnZeroExitAndValid ==
    (last.who = "kit" /\ last.op = "verify") =>
        (last.res = Ok([b |-> TRUE])) =
            (\E i \in LaunchesOf(last.tr, "verify") :
                /\ ExitedWith0(last.tr[i])
                /\ \/ contains(last.tr[i].res.v.stdout, T_OK)
                   \/ contains(last.tr[i].res.v.stdout, T_valid))
\* verify returned true on a report that says "Invalid proof"
C37_Witness ==
    /\ last.who = "kit" /\ last.op = "verify" /\ last.res = Ok([b |-> TRUE])
    /\ \E i \in LaunchesOf(last.tr, "verify") :
          /\ ExitedWith0(last.tr[i])
          /\ contains(last.tr[i].res.v.stdout, T_InvalidProof)
    /\ last.args.public_signals # PublicOf(InGood)

\* C38 (as stated): clean(circuit) leaves every artifact and the entry point
\* of every circuit of another name as it was; on a circuit without a build
\* directory it changes nothing and succeeds; a second clean changes nothing.
C38_CleanOnlyThatCircuit ==
    [][(last'.who = "kit" /\ last'.op = "clean") =>
          LET c == last'.args.c
          IN  /\ \A b \in NamedCircuits :
                    (b.name # c.name) =>
                        \A p \in Footprint(config, b) : exists(fs', p) = exists(fs, p)
              /\ ~last'.pre.build => (fs' = fs /\ last'.res = Ok(Unit))
              /\ (last.who = "kit" /\ last.op = "clean" /\ last.args.c = c /\ last.res.ok)
                    => (fs' = fs /\ last'.res = Ok(Unit))]_vars
\* what the code does: a successful clean removes the directory
\* <build root>/<name> with everything under it and nothing else, which for
\* the name "main" is the directory of all entry points
C38_CleanRemovesBuildPath ==
    [][(last'.who = "kit" /\ last'.op = "clean") =>
          LET c == last'.args.c
              dir == build_path(config, c.name)
          IN  /\ last'.res.ok =>
                    /\ DOMAIN fs' = {p \in DOMAIN fs : ~IsPrefix(dir, p)}
                    /\ \A p \in DOMAIN fs' : fs'[p] = fs[p]
              /\ ~last'.res.ok => fs' = fs
              /\ ~last'.pre.build => (fs' = fs /\ last'.res = Ok(Unit))
              /\ (last.who = "kit" /\ last.op = "clean" /\ last.args.c = c /\ last.res.ok)
                    => (fs' = fs /\ last'.res = Ok(Unit))
              /\ (dir # main_dir(config)) =>
                    \A b \in NamedCircuits :
                        (b.name # c.name) =>
                            \A p \in Footprint(config, b) : exists(fs', p) = exists(fs, p)]_vars
\* clean of the circuit named "main" has removed the entry point of "mul"
C38_Witness ==
    /\ last.who = "kit" /\ last.op = "clean" /\ last.res.ok
    /\ last.args.c = CircMain
    /\ ~exists(fs, main_path(config, CircA))
    /\ exists(fs, r1cs_path(config, CircA))

(***************************************************************************)
(* Cleaning and rebuilding                                                 *)
(***************************************************************************)
\* the recorded call is a stage call made after a clean or clean_all returned Ok
AfterClean == last.who = "kit" /\ "since" \in DOMAIN last.pre /\ last.pre.since.cleaned
\* the recorded call failed with an error of the kind, launching nothing
FailedUnlaunched(kind) ==
    ~last.res.ok /\ last.res.v.kind = kind /\ Launches(last.tr) = {}

C39_WitnessCleaned ==
    /\ last.who = "kit" /\ last.op = "clean" /\ last.res.ok
    /\ "since" \in DOMAIN last.pre /\ last.pre.since.setup /\ last.pre.zkey /\ last.pre.vkey
    /\ ~exists(fs, zkey_path(config, last.args.c)) /\ ~exists(fs, wasm_file(config, last.args.c))
\* after clean and a new compile, a setup that failed at the key export left the
\* proving key, and export_verifier used it
C39_WitnessKeyLeft ==
    /\ AfterClean /\ last.pre.since.compiled /\ ~last.pre.since.setup
    /\ last.op = "export_verifier" /\ last.pre.zkey /\ last.res.ok
    /\ Launched(last.tr, "export_verifier")
\* after clean and a new compile, prove without keys ran the witness calculator
C39_WitnessProve ==
    /\ AfterClean /\ last.pre.since.compiled /\ ~last.pre.since.setup
    /\ last.op = "prove" /\ ~last.pre.zkey /\ ~last.res.ok
    /\ Launched(last.tr, "node")

(***************************************************************************)
(* The circuit map after add_circuit and load_circuits                     *)
(***************************************************************************)
\* C40 (as stated): in every reachable state each entry of the circuit map is
\* keyed by the name of the configuration it holds, get_circuit(n) returns, when
\* present, a configuration named n, and load_circuits on a missing circuits
\* file leaves the map unchanged.
C40_KeyedByName ==
    /\ \A n \in DOMAIN circuits : circuits[n].name = n
    /\ (last.who = "kit" /\ last.op = "get_circuit" /\ last.res.v.some) =>
          last.res.v.v.name = last.args.name
    /\ (last.who = "kit" /\ last.op = "load_circuits" /\ ~last.pre.file) =>
          circuits = last.pre.circuits
\* what load_circuits does: without a circuits file it returns Ok, reads nothing
\* and leaves the map; when it fails it leaves the map; when it succeeds on a
\* file the map is the file's object, key for key, whatever the map held and
\* whatever the members' names are.  add_circuit stores under the name.
C40_LoadTakesFileKeys ==
    /\ (last.who = "kit" /\ last.op = "load_circuits") =>
          /\ ~last.pre.file =>
                circuits = last.pre.circuits /\ last.res = Ok(Unit) /\ last.tr = << >>
          /\ ~last.res.ok => circuits = last.pre.circuits
          /\ (last.pre.file /\ last.res.ok) => circuits = fs[config.circuits].entries
    /\ (last.who = "kit" /\ last.op = "add_circuit") =>
          circuits[last.args.c.name] = last.args.c
\* load_circuits read a file whose member "adder" holds the configuration named
\* "mul", after a circuit had been added
C40_Witness ==
    /\ last.who = "kit" /\ last.op = "load_circuits" /\ last.res.ok
    /\ last.pre.circuits # NoCircuits
    /\ "adder" \in DOMAIN circuits /\ circuits["adder"].name = "mul"
\* get_circuit("adder") returned the configuration named "mul"
C40_WitnessGet ==
    /\ last.who = "kit" /\ last.op = "get_circuit" /\ last.args.name = "adder"
    /\ last.res = Ok(Some(CircA))
\* load_circuits without a circuits file, on a map that holds a circuit
C40_WitnessNoFile ==
    /\ last.who = "kit" /\ last.op = "load_circuits" /\ ~last.pre.file
    /\ circuits # NoCircuits

====
